---- MODULE Spec2Model ----
(***************************************************************************)
(* A model of the RAFS v6 direct-mapped metadata driver                    *)
(* (rafs/src/metadata/direct_v6.rs).                                       *)
(*                                                                         *)
(* The bootstrap is modelled at byte level: a mapping is a file length     *)
(* and a list of byte segments (every byte outside a segment is 0), and    *)
(* every on-disk record is decoded from its little-endian bytes.           *)
(*                                                                         *)
(* Machine integers of 32 and 64 bits are modelled exactly.  A 64-bit      *)
(* value is a tuple of four 16-bit limbs, least significant first, so      *)
(* that wrap-around at 2^32 and 2^64 is computed and not assumed away.     *)
(* Values the code holds in u8/u16 fields, and byte offsets that were      *)
(* checked against the file length, are plain integers.                    *)
(*                                                                         *)
(* Arithmetic overflow is build dependent in Rust: with overflow checks    *)
(* (debug profile) it panics, without them (release profile) it wraps.     *)
(* The variable overflow_checks is chosen in Init and never changes.       *)
(***************************************************************************)
EXTENDS Integers, Sequences, FiniteSets, TLC

VARIABLES
    overflow_checks,  \* build profile: TRUE = overflow panics, FALSE = wraps
    req,              \* sequential specs: the call being made
    res,              \* sequential specs: what the call returned
    state,            \* DirectSuperBlockV6.state: the published tuple (ArcSwap)
    tuples,           \* every DirectMappingState ever built, by id
    chunk_map,        \* DirectCachedInfo.chunk_map: Mutex<Option<HashMap>>
    readers,          \* reader threads: position, locals, guards
    updater,          \* the thread running update_state
    released,         \* the tuples whose destructor has run, by id
    daemon            \* ServiceContoller: the two channels and the receiver lock

vars == <<overflow_checks, req, res, state, tuples, chunk_map, readers, updater,
         released, daemon>>

seqVars == <<req, res>>
concVars == <<state, tuples, chunk_map, readers, updater, released, daemon>>
fsVars == <<state, tuples, chunk_map, updater, released>>

-----------------------------------------------------------------------------
(* Program constants *)

EROFS_BLOCK_SIZE == 4096
EROFS_INODE_SLOT_SIZE == 32
EROFS_I_VERSION_BITS == 1
EROFS_I_VERSION_BIT == 0
EROFS_I_DATALAYOUT_BITS == 3
EROFS_INODE_FLAT_PLAIN == 0
EROFS_INODE_FLAT_INLINE == 2
EROFS_INODE_CHUNK_BASED == 4
RAFS_MAX_NAME == 255

SizeOfDirent == 12
SizeOfInodeCompact == 32
SizeOfInodeExtended == 64
SizeOfChunkAddr == 8
SizeOfXattrEntry == 4
SizeOfXattrIbodyHeader == 12
SizeOfV5ChunkInfo == 80

S_IFMT == 61440
S_IFDIR == 16384
S_IFREG == 32768
S_IFLNK == 40960

-----------------------------------------------------------------------------
(* Results: Rust's Result<T, E>, plus a panic that unwinds the call *)

Ok(v) == [tag |-> "Ok", val |-> v]
Err(k) == [tag |-> "Err", kind |-> k]
Panic(why) == [tag |-> "Panic", why |-> why]
\* a loop the model stopped following (MaxSearchSteps): the call does not return
Diverges == [tag |-> "Diverges"]
\* the process aborts (no unwinding): the guard page of the stack was hit
Abort(why) == [tag |-> "Abort", why |-> why]

IsOk(r) == r.tag = "Ok"
IsErr(r) == r.tag = "Err"
IsPanic(r) == r.tag = "Panic"

\* `r.map_err(|_| kind)`
MapErr(r, kind) == IF IsErr(r) THEN Err(kind) ELSE r

\* `let v = e; F(v)`: e is evaluated once, before F
Bind(e, F(_)) == CHOOSE y \in {F(v) : v \in {e}} : TRUE

\* `let v = r?; F(v)`: a result that is not Ok returns at once
Try(r, F(_)) == CHOOSE y \in {IF v.tag = "Ok" THEN F(v.val) ELSE v : v \in {r}} : TRUE

\* the tuple the k-th load of `state` made by an operation returns: ld holds
\* the tuples the loads return, in order, and a load past its end returns
\* the last of them
Load(ld, k) == ld[IF k <= Len(ld) THEN k ELSE Len(ld)]

\* Ok(v) of a function that is followed by more loads: n is the number of
\* the next load
OkN(v, n) == [tag |-> "Ok", val |-> v, n |-> n]

\* `let v = r?; F(v, n)`, n the number of the next load
TryN(r, F(_, _)) ==
    CHOOSE y \in {IF v.tag = "Ok" THEN F(v.val, v.n) ELSE v : v \in {r}} : TRUE

-----------------------------------------------------------------------------
(* 64-bit machine words as four 16-bit limbs, least significant first *)

LIMB == 256 * 256

\* the word of a natural number below 2^30
W(n) == <<n % LIMB, n \div LIMB, 0, 0>>

WZero == <<0, 0, 0, 0>>
WMax == <<65535, 65535, 65535, 65535>>

\* does the word fit a plain integer (below 2^30)?
WSmall(w) == w[3] = 0 /\ w[4] = 0 /\ w[2] < 16384

\* the plain integer of a small word
WInt(w) == w[1] + w[2] * LIMB

WEq(a, b) == a = b

WLt(a, b) ==
    \/ a[4] < b[4]
    \/ a[4] = b[4] /\ a[3] < b[3]
    \/ a[4] = b[4] /\ a[3] = b[3] /\ a[2] < b[2]
    \/ a[4] = b[4] /\ a[3] = b[3] /\ a[2] = b[2] /\ a[1] < b[1]

WLe(a, b) == a = b \/ WLt(a, b)

WMin(a, b) == IF WLt(b, a) THEN b ELSE a

\* a + b modulo 2^64; of = the true sum did not fit
WAdd(a, b) ==
    LET s1 == a[1] + b[1]
        s2 == a[2] + b[2] + (s1 \div LIMB)
        s3 == a[3] + b[3] + (s2 \div LIMB)
        s4 == a[4] + b[4] + (s3 \div LIMB)
    IN  [v |-> <<s1 % LIMB, s2 % LIMB, s3 % LIMB, s4 % LIMB>>, of |-> s4 >= LIMB]

\* a - b modulo 2^64; of = the true difference is negative
WSub(a, b) ==
    LET d1 == a[1] - b[1]
        b1 == IF d1 < 0 THEN 1 ELSE 0
        d2 == a[2] - b[2] - b1
        b2 == IF d2 < 0 THEN 1 ELSE 0
        d3 == a[3] - b[3] - b2
        b3 == IF d3 < 0 THEN 1 ELSE 0
        d4 == a[4] - b[4] - b3
    IN  [v |-> <<(d1 + LIMB) % LIMB, (d2 + LIMB) % LIMB,
                 (d3 + LIMB) % LIMB, (d4 + LIMB) % LIMB>>,
         of |-> d4 < 0]

\* a * c modulo 2^64, for a constant 0 <= c <= 2^14; of = the product did not fit
WMulC(a, c) ==
    LET p1 == a[1] * c
        p2 == a[2] * c + (p1 \div LIMB)
        p3 == a[3] * c + (p2 \div LIMB)
        p4 == a[4] * c + (p3 \div LIMB)
    IN  [v |-> <<p1 % LIMB, p2 % LIMB, p3 % LIMB, p4 % LIMB>>, of |-> p4 >= LIMB]

\* a div c and a mod c, for a constant 1 <= c <= 2^14
WDivC(a, c) ==
    LET q4 == a[4] \div c
        r4 == a[4] % c
        c3 == r4 * LIMB + a[3]
        q3 == c3 \div c
        r3 == c3 % c
        c2 == r3 * LIMB + a[2]
        q2 == c2 \div c
        r2 == c2 % c
        c1 == r2 * LIMB + a[1]
    IN  [q |-> <<c1 \div c, q2, q3, q4>>, r |-> c1 % c]

\* a >> 1
WShr1(a) ==
    <<(a[1] \div 2) + (a[2] % 2) * 32768,
      (a[2] \div 2) + (a[3] % 2) * 32768,
      (a[3] \div 2) + (a[4] % 2) * 32768,
      a[4] \div 2>>

\* `as u32`: keep the low 32 bits
AsU32(a) == <<a[1], a[2], 0, 0>>

\* does the word fit 32 bits?
FitsU32(a) == a[3] = 0 /\ a[4] = 0

\* u32 subtraction: a - b modulo 2^32; of = the true difference is negative
U32Sub(a, b) ==
    LET d == WSub(a, b) IN [v |-> AsU32(d.v), of |-> d.of]

U32Min(a, b) == WMin(a, b)

\* `let v = <arithmetic>; F(v)`: panic on overflow in a checked build, go on
\* with the wrapped value otherwise
Chk(r, why, F(_)) ==
    CHOOSE y \in {IF v.of /\ overflow_checks THEN Panic(why) ELSE F(v.v) : v \in {r}} :
        TRUE

-----------------------------------------------------------------------------
(* Byte strings *)

\* the first index at which a and b differ, or the shorter length plus one
FirstDiff(a, b) ==
    LET n == IF Len(a) < Len(b) THEN Len(a) ELSE Len(b)
    IN  CHOOSE k \in 1..(n + 1) :
            /\ k = n + 1 \/ a[k] # b[k]
            /\ \A j \in 1..(k - 1) : a[j] = b[j]

\* lexicographic a <= b on bytes (the order of OsStr)
BytesLe(a, b) ==
    LET k == FirstDiff(a, b)
    IN  IF k > Len(a) THEN TRUE
        ELSE IF k > Len(b) THEN FALSE
        ELSE a[k] < b[k]

\* Ord for OsStr: "Less", "Equal" or "Greater"
OsStrCmp(a, b) ==
    IF a = b THEN "Equal" ELSE IF BytesLe(a, b) THEN "Less" ELSE "Greater"

-----------------------------------------------------------------------------
(* The bootstrap file behind a FileMapState.  A file is                     *)
(* [len |-> its length, segs |-> <<[base, data], ...>>]; bytes outside      *)
(* every segment are 0.  The input files are defined further down.          *)

RECURSIVE SegByte(_, _, _)
SegByte(segs, i, off) ==
    IF i > Len(segs) THEN 0
    ELSE IF off >= segs[i].base /\ off < segs[i].base + Len(segs[i].data)
         THEN segs[i].data[off - segs[i].base + 1]
         ELSE SegByte(segs, i + 1, off)

\* the byte of file f at offset off (off < f.len)
FileByte(f, off) == SegByte(f.segs, 1, off)

\* little-endian field reads
ReadU8(f, off) == FileByte(f, off)
ReadU16(f, off) == FileByte(f, off) + 256 * FileByte(f, off + 1)
ReadU32(f, off) == <<ReadU16(f, off), ReadU16(f, off + 2), 0, 0>>
ReadU64(f, off) ==
    <<ReadU16(f, off), ReadU16(f, off + 2), ReadU16(f, off + 4), ReadU16(f, off + 6)>>

\* FileMapState::get_ref::<T>(offset): a reference to the size bytes at offset, or
\* InvalidData when [offset, offset + size) is not inside the mapping.
\* Ok carries the checked offset as a plain integer.
get_ref(f, offset, size) ==
    IF WSmall(offset) /\ WInt(offset) + size <= f.len
    THEN Ok(WInt(offset))
    ELSE Err("InvalidData")

\* FileMapState::get_slice::<T>(offset, count): count records of size bytes each
get_slice(f, offset, count, size) ==
    LET bytes == WMulC(count, size)
        end == WAdd(offset, bytes.v)
    IN  IF ~bytes.of /\ ~end.of /\ WLe(end.v, W(f.len))
        THEN Ok([off |-> WInt(offset), n |-> WInt(count)])
        ELSE Err("InvalidData")

\* FileMapState::validate_range(offset, size)
validate_range(f, offset, size) ==
    IF offset + size <= f.len THEN Ok(TRUE) ELSE Err("InvalidData")

\* the bytes of a slice of u8
SliceBytes(f, sl) == [i \in 1..sl.n |-> FileByte(f, sl.off + i - 1)]

\* nydus_utils::div_round_up(n, d) for a word n and 1 <= d <= 2^14
div_round_up(n, d) ==
    LET qr == WDivC(n, d)
    IN  IF qr.r = 0 THEN qr.q ELSE WAdd(qr.q, W(1)).v

\* nydus_utils::round_up(n, d) on plain integers
round_up(n, d) == ((n + d - 1) \div d) * d

-----------------------------------------------------------------------------
(* On-disk records (layout/v6.rs), decoded from the bytes of file f *)

\* RafsV6InodeCompact at off
InodeCompactAt(f, off) ==
    [ext |-> FALSE,
     format |-> ReadU16(f, off),
     xattr_inline_count |-> ReadU16(f, off + 2),
     mode |-> ReadU16(f, off + 4),
     nlink |-> W(ReadU16(f, off + 6)),
     size |-> ReadU32(f, off + 8),
     union |-> ReadU32(f, off + 16)]

\* RafsV6InodeExtended at off
InodeExtendedAt(f, off) ==
    [ext |-> TRUE,
     format |-> ReadU16(f, off),
     xattr_inline_count |-> ReadU16(f, off + 2),
     mode |-> ReadU16(f, off + 4),
     nlink |-> ReadU32(f, off + 44),
     size |-> ReadU64(f, off + 8),
     union |-> ReadU32(f, off + 16)]

\* RafsV6Dirent at off
DirentAt(f, off) ==
    [e_nid |-> ReadU64(f, off),
     e_nameoff |-> ReadU16(f, off + 8),
     e_file_type |-> ReadU8(f, off + 10)]

\* RafsV6InodeChunkAddr at off: blob_index() is the low byte of c_blob_addr_hi,
\* blob_ci_index() its high byte followed by c_blob_addr_lo
ChunkAddrAt(f, off) ==
    LET lo == ReadU16(f, off)
        hi == ReadU16(f, off + 2)
    IN  [blob_index |-> hi % 256,
         blob_ci_index |-> (hi \div 256) * LIMB + lo,
         block_addr |-> ReadU32(f, off + 4)]

-----------------------------------------------------------------------------
(* The superblock.  A state tuple st is [meta, blob_table, map], map being  *)
(* the mapped file; info is the DirectCachedInfo built once by new().       *)

None == [some |-> FALSE]
Some(x) == [some |-> TRUE, v |-> x]

\* DirectSuperBlockV6::new: the cached info taken from the meta
DirectCachedInfo(meta) ==
    [meta_offset |-> WMulC(W(meta.meta_blkaddr), EROFS_BLOCK_SIZE).v,
     root_ino |-> W(meta.root_nid),
     chunk_size |-> meta.chunk_size]

\* DirectSuperBlockV6::get_max_ino
get_max_ino == <<65534, 65535, 65535, 255>>

\* DirectSuperBlockV6::disk_inode(state, offset): peek the version bit of the
\* compact view, then take the compact or the extended view
disk_inode(st, offset) ==
    Try(get_ref(st.map, offset, SizeOfInodeCompact), LAMBDA o :
        IF ReadU16(st.map, o) % 2 = 0
        THEN Ok(InodeCompactAt(st.map, o))
        ELSE Try(get_ref(st.map, offset, SizeOfInodeExtended), LAMBDA o2 :
                 Ok(InodeExtendedAt(st.map, o2))))

\* OndiskInodeWrapper::new(state, mapping, offset)
OndiskInodeWrapper_new(st, offset) ==
    Try(disk_inode(st, offset), LAMBDA inode :
        Ok([offset |-> WInt(offset),
            blocks_count |-> div_round_up(inode.size, EROFS_BLOCK_SIZE),
            parent_inode |-> None,
            name |-> None]))

\* DirectSuperBlockV6::inode_wrapper(state, nid)
inode_wrapper(info, st, nid) ==
    Chk(WMulC(nid, EROFS_INODE_SLOT_SIZE), "inode_wrapper: nid * 32", LAMBDA m :
    Chk(WAdd(info.meta_offset, m), "inode_wrapper: meta_offset + nid * 32", LAMBDA a :
        OndiskInodeWrapper_new(st, a)))

\* DirectSuperBlockV6::inode_wrapper_with_info(state, nid, parent_inode, name)
inode_wrapper_with_info(info, st, nid, parent_inode, name) ==
    Try(inode_wrapper(info, st, nid), LAMBDA i :
        Ok([i EXCEPT !.parent_inode = Some(parent_inode), !.name = Some(name)]))

\* DirectSuperBlockV6::get_inode(ino), on the tuple its state.load() returned
get_inode(info, st, ino) == inode_wrapper(info, st, ino)

\* OndiskInodeWrapper::disk_inode(state): disk_inode(state, self.offset).unwrap()
handle_disk_inode(h, st) ==
    Bind(disk_inode(st, W(h.offset)), LAMBDA r :
        IF IsOk(r) THEN r ELSE Panic("disk_inode: unwrap on Err"))

\* OndiskInodeWrapper::ino
ino(info, h) ==
    WDivC(WSub(W(h.offset), info.meta_offset).v, EROFS_INODE_SLOT_SIZE).q

\* mode & S_IFMT of a decoded inode
mode_format_bits(inode) == (inode.mode \div 4096) * 4096

is_dir(inode) == mode_format_bits(inode) = S_IFDIR
is_reg(inode) == mode_format_bits(inode) = S_IFREG
is_symlink(inode) == mode_format_bits(inode) = S_IFLNK

\* OndiskInodeWrapper::inode_size
inode_size(inode) ==
    IF inode.format % 2 # 0 THEN SizeOfInodeExtended ELSE SizeOfInodeCompact

\* OndiskInodeWrapper::xattr_size
xattr_size(inode) ==
    IF inode.xattr_inline_count > 0
    THEN (inode.xattr_inline_count - 1) * SizeOfXattrEntry + SizeOfXattrIbodyHeader
    ELSE 0

\* OndiskInodeWrapper::inode_xattr_size
inode_xattr_size(inode) ==
    round_up(inode_size(inode) + xattr_size(inode), SizeOfChunkAddr)

\* the plain-layout address of block index: union * 4096 + index * 4096
PlainBlockOffset(inode, index) ==
    Chk(WMulC(index, EROFS_BLOCK_SIZE), "data_block_offset: index * 4096", LAMBDA m :
    Chk(WAdd(WMulC(inode.union, EROFS_BLOCK_SIZE).v, m),
        "data_block_offset: union * 4096 + index * 4096", LAMBDA a : Ok(a)))

\* OndiskInodeWrapper::data_block_offset(inode, index)
data_block_offset(h, inode, index) ==
    IF inode.format \div 16 # 0 THEN Err("Incompatible")
    ELSE IF inode.format \div 2 = EROFS_INODE_FLAT_PLAIN
         THEN PlainBlockOffset(inode, index)
    ELSE IF inode.format \div 2 = EROFS_INODE_FLAT_INLINE
         THEN Chk(WSub(h.blocks_count, W(1)), "data_block_offset: blocks_count - 1",
                  LAMBDA lastb :
                  IF index # lastb THEN PlainBlockOffset(inode, index)
                  ELSE Ok(W(h.offset + inode_xattr_size(inode))))
    ELSE Err("InvalidImageData")

\* OndiskInodeWrapper::get_entry(state, inode, block_index, index)
get_entry(h, st, inode, block_index, index) ==
    Try(data_block_offset(h, inode, block_index), LAMBDA o :
    Chk(WMulC(index, SizeOfDirent), "get_entry: 12 * index", LAMBDA m :
    Chk(WAdd(o, m), "get_entry: offset + 12 * index", LAMBDA a :
    Try(MapErr(get_ref(st.map, a, SizeOfDirent), "InvalidImageData"), LAMBDA r :
        Ok(DirentAt(st.map, r))))))

\* the number of bytes before the first NUL of the len bytes at off: the
\* `for i in buf` loop of entry_name
NulPrefix(f, off, len) ==
    CHOOSE l \in 0..len :
        /\ l = len \/ FileByte(f, off + l) = 0
        /\ \A m \in 0..(l - 1) : FileByte(f, off + m) # 0

\* entry_name, the branch of an entry that is not the last of its block
EntryNameInner(h, st, inode, block_index, index, offset, de) ==
    Chk(WAdd(index, W(1)), "entry_name: index + 1", LAMBDA i1 :
    Try(get_entry(h, st, inode, block_index, i1), LAMBDA next_de :
        IF next_de.e_nameoff < de.e_nameoff THEN Err("IllegalMetaStruct")
        ELSE
    Chk(WAdd(offset, W(de.e_nameoff)), "entry_name: offset + e_nameoff", LAMBDA a :
    Try(MapErr(get_slice(st.map, a, W(next_de.e_nameoff - de.e_nameoff), 1),
               "InvalidImageData"), LAMBDA sl :
        Ok(SliceBytes(st.map, sl))))))

\* entry_name, the branch of the last entry of a block.  The branch calls
\* self.size() once to tell whether the block is the last of the directory
\* (the load n of ld) and, only when it is, once more for the bytes the
\* directory has in that block (the load n + 1)
EntryNameLast(h, st, ld, n, inode, block_index, offset, de, max_entries) ==
    Try(get_entry(h, st, inode, block_index, WZero), LAMBDA head_de :
        IF de.e_nameoff < head_de.e_nameoff /\ overflow_checks
        THEN Panic("entry_name: e_nameoff underflow")
        ELSE
    Chk(WMulC(max_entries, SizeOfDirent), "entry_name: 12 * max_entries", LAMBDA m :
    Chk(WAdd(W((de.e_nameoff - head_de.e_nameoff + LIMB) % LIMB), m),
        "entry_name: s", LAMBDA s :
    Try(handle_disk_inode(h, Load(ld, n)), LAMBDA sz1 :
    Chk(WAdd(block_index, W(1)), "entry_name: block_index + 1", LAMBDA b1 :
    Bind(div_round_up(sz1.size, EROFS_BLOCK_SIZE) = b1, LAMBDA is_last :
    Try(IF is_last THEN handle_disk_inode(h, Load(ld, n + 1)) ELSE Ok(sz1), LAMBDA sz2 :
    Chk(IF is_last
        THEN WSub(W(WDivC(sz2.size, EROFS_BLOCK_SIZE).r), s)
        ELSE WSub(W(EROFS_BLOCK_SIZE), s),
        "entry_name: name length underflow", LAMBDA len :
    Chk(WAdd(offset, W(de.e_nameoff)), "entry_name: offset + e_nameoff", LAMBDA a :
    Try(MapErr(get_slice(st.map, a, len, 1), "InvalidImageData"), LAMBDA sl :
        OkN(SliceBytes(st.map, [off |-> sl.off,
                                n |-> NulPrefix(st.map, sl.off, sl.n)]),
            IF is_last THEN n + 2 ELSE n + 1)))))))))))

\* OndiskInodeWrapper::entry_name(state, inode, block_index, index, max_entries):
\* the name, and the number of the load that follows the call
entry_name(h, st, ld, n, inode, block_index, index, max_entries) ==
    Try(data_block_offset(h, inode, block_index), LAMBDA offset :
    Try(get_entry(h, st, inode, block_index, index), LAMBDA de :
    Chk(WSub(max_entries, W(1)), "entry_name: max_entries - 1", LAMBDA m1 :
        IF WLt(index, m1)
        THEN Try(EntryNameInner(h, st, inode, block_index, index, offset, de),
                 LAMBDA name : OkN(name, n))
        ELSE EntryNameLast(h, st, ld, n, inode, block_index, offset, de, max_entries))))

-----------------------------------------------------------------------------
(* Directory reader.  st is the tuple the operation holds in `state`.  Each  *)
(* self.state(), self.size(), is_dir(), is_reg() and is_symlink() is a load  *)
(* of its own: ld is the sequence of the tuples the loads of the operation   *)
(* return, in the order the code makes them, and n the number of the next    *)
(* load.  A function that is followed by more loads returns OkN.             *)

\* the most iterations of a search loop the model follows; a 64-bit binary
\* search that never wraps ends within 65
MaxSearchSteps == 80

\* a loop iteration that ended without leaving the loop: the loop variables
\* and the number of the next load
Continue(first, last, n) == [tag |-> "Continue", first |-> first, last |-> last, n |-> n]

\* one iteration of the `while first <= last` loop of find_target_block: the
\* value the function returns from inside the loop, or the next first and last
find_target_block_iter(h, st, ld, n, inode, name, first, last) ==
    Bind(WAdd(first, WShr1(WSub(last, first).v)).v, LAMBDA pivot :
    Try(MapErr(get_entry(h, st, inode, pivot, WZero), "InvalidData"),
        LAMBDA head_entry :
    Bind(W(head_entry.e_nameoff \div SizeOfDirent), LAMBDA entries_count :
    TryN(MapErr(entry_name(h, st, ld, n, inode, pivot, WZero, entries_count),
                "InvalidData"), LAMBDA h_name, n1 :
    Chk(WSub(entries_count, W(1)), "find_target_block: entries_count - 1", LAMBDA e1 :
    TryN(MapErr(entry_name(h, st, ld, n1, inode, pivot, e1, entries_count),
                "InvalidData"), LAMBDA t_name, n2 :
        IF BytesLe(h_name, name) /\ BytesLe(name, t_name) THEN OkN(pivot, n2)
        ELSE IF ~BytesLe(h_name, name)
        THEN Chk(WSub(pivot, W(1)), "find_target_block: pivot - 1", LAMBDA down :
                 Continue(first, down, n2))
        ELSE Chk(WAdd(pivot, W(1)), "find_target_block: pivot + 1", LAMBDA up :
                 Continue(up, last, n2))
    ))))))

RECURSIVE find_target_block_loop(_, _, _, _, _, _, _)
\* the `while first <= last` loop of find_target_block, s the outcome of the
\* iteration before
find_target_block_loop(h, st, ld, inode, name, s, fuel) ==
    IF s.tag # "Continue" THEN s
    ELSE IF ~WLe(s.first, s.last) THEN OkN(WZero, s.n)
    ELSE IF fuel = 0 THEN Diverges
    ELSE find_target_block_loop(h, st, ld, inode, name,
             find_target_block_iter(h, st, ld, s.n, inode, name, s.first, s.last),
             fuel - 1)

\* OndiskInodeWrapper::find_target_block(state, name)
find_target_block(h, st, ld, n, name) ==
    Try(handle_disk_inode(h, st), LAMBDA inode :
        IF inode.size = WZero THEN Err("NotFound")
        ELSE find_target_block_loop(h, st, ld, inode, name,
                 Continue(WZero,
                          WSub(div_round_up(inode.size, EROFS_BLOCK_SIZE), W(1)).v, n),
                 MaxSearchSteps))

\* one iteration of the `while first <= last` loop of get_child_by_name
get_child_by_name_iter(info, h, st, ld, n, inode, name, target_block, entries_count, first, last) ==
    Bind(WAdd(first, WShr1(WSub(last, first).v)).v, LAMBDA pivot :
    Try(MapErr(get_entry(h, st, inode, target_block, pivot), "InvalidData"),
        LAMBDA de :
    TryN(MapErr(entry_name(h, st, ld, n, inode, target_block, pivot, entries_count),
                "InvalidData"), LAMBDA d_name, n1 :
    Bind(OsStrCmp(d_name, name), LAMBDA ord :
        IF ord = "Equal"
        THEN Try(inode_wrapper_with_info(info, st, de.e_nid, ino(info, h), name),
                 LAMBDA child : OkN(child, n1))
        ELSE IF ord = "Less"
        THEN Chk(WAdd(pivot, W(1)), "get_child_by_name: pivot + 1", LAMBDA up :
                 Continue(up, last, n1))
        ELSE Chk(WSub(pivot, W(1)), "get_child_by_name: pivot - 1", LAMBDA down :
                 Continue(first, down, n1))
    ))))

RECURSIVE get_child_by_name_loop(_, _, _, _, _, _, _, _, _, _)
\* the `while first <= last` loop of get_child_by_name, inside target_block
get_child_by_name_loop(info, h, st, ld, inode, name, target_block, entries_count, s, fuel) ==
    IF s.tag # "Continue" THEN s
    ELSE IF ~WLe(s.first, s.last) THEN Err("NotFound")
    ELSE IF fuel = 0 THEN Diverges
    ELSE get_child_by_name_loop(info, h, st, ld, inode, name, target_block,
             entries_count,
             get_child_by_name_iter(info, h, st, ld, s.n, inode, name, target_block,
                                    entries_count, s.first, s.last),
             fuel - 1)

\* OndiskInodeWrapper::get_child_by_name(name): the load n of ld is its
\* self.state(), the loads of find_target_block and of the loop follow
get_child_by_name(info, h, ld, n, name) ==
    Bind(Load(ld, n), LAMBDA st :
    Try(handle_disk_inode(h, st), LAMBDA inode :
    Bind(find_target_block(h, st, ld, n + 1, name), LAMBDA target_block :
        IF IsErr(target_block) THEN Err("NotFound")
        ELSE IF ~IsOk(target_block) THEN target_block
        ELSE
    Try(MapErr(get_entry(h, st, inode, target_block.val, WZero), "InvalidData"),
        LAMBDA head_entry :
    Bind(W(head_entry.e_nameoff \div SizeOfDirent), LAMBDA entries_count :
    Chk(WSub(entries_count, W(1)), "get_child_by_name: entries_count - 1", LAMBDA last :
        get_child_by_name_loop(info, h, st, ld, inode, name, target_block.val,
                               entries_count, Continue(WZero, last, target_block.n),
                               MaxSearchSteps)))))))

DOT == <<46>>
DOTDOT == <<46, 46>>

(* walk_children_inodes.  The handler is hs: [kind |-> "policy", brk] is a   *)
(* handler that returns Break at the brk-th entry it is given (brk = 0: it   *)
(* always returns Continue) and loads nothing; [kind |-> "collect",          *)
(* child_dirs, descendants] is the callback of collect_descendants_inodes    *)
(* with the vectors it pushes to (child_dirs the handles, descendants the    *)
(* nids).  The walk's answer is [result, emitted, n, hs]: emitted the        *)
(* sequence of [name, nid, offset] handed to the handler, in order, n the    *)
(* number of the next load, hs the handler after its last call.  A walk in   *)
(* progress is [tag |-> "Continue", i, j, entries_count, skipped,            *)
(* cur_offset, e, n, hs]: the loop variables, the entries emitted so far,    *)
(* the number of the next load and the handler.                              *)

Walked(result, s) ==
    [tag |-> "Done", result |-> result, emitted |-> s.e, n |-> s.n, hs |-> s.hs]

\* one call of the handler hs on the child handle and its name, count the
\* number of entries handed over so far: whether it breaks, the handler after
\* the call and the number of the next load.  The callback of
\* collect_descendants_inodes loads in child.is_dir() and, for a child that
\* is no directory, in is_empty_size() and, when the size is not 0, in is_reg()
walk_handler(hs, child, name, nid, count, ld, n) ==
    IF hs.kind = "policy" THEN OkN([brk |-> hs.brk = count, hs |-> hs], n)
    ELSE
    Try(handle_disk_inode(child, Load(ld, n)), LAMBDA d :
        IF is_dir(d)
        THEN OkN([brk |-> FALSE,
                  hs |-> IF name # DOT /\ name # DOTDOT
                         THEN [hs EXCEPT !.child_dirs = Append(@, child)] ELSE hs],
                 n + 1)
        ELSE
    Try(handle_disk_inode(child, Load(ld, n + 1)), LAMBDA e :
        IF e.size = WZero THEN OkN([brk |-> FALSE, hs |-> hs], n + 2)
        ELSE
    Try(handle_disk_inode(child, Load(ld, n + 2)), LAMBDA r :
        OkN([brk |-> FALSE,
             hs |-> IF is_reg(r) THEN [hs EXCEPT !.descendants = Append(@, nid)]
                    ELSE hs],
            n + 3))))

\* the body of `for j in 0..entries_count` for entry j of block i
walk_entry(info, h, st, ld, inode, s) ==
    Bind(MapErr(get_entry(h, st, inode, W(s.i), W(s.j)), "InvalidData"), LAMBDA de :
        IF ~IsOk(de) THEN Walked(de, s)
        ELSE
    Bind(MapErr(entry_name(h, st, ld, s.n, inode, W(s.i), W(s.j), W(s.entries_count)),
                "InvalidData"), LAMBDA name :
        IF ~IsOk(name) THEN Walked(name, s)
        ELSE IF s.skipped # 0
        THEN [s EXCEPT !.j = s.j + 1, !.skipped = s.skipped - 1, !.n = name.n]
        ELSE
    Bind(inode_wrapper_with_info(info, st, de.val.e_nid, ino(info, h), name.val),
         LAMBDA child :
        IF ~IsOk(child) THEN Walked(child, [s EXCEPT !.n = name.n])
        ELSE
    Bind(Append(s.e, [name |-> name.val, nid |-> de.val.e_nid,
                      offset |-> s.cur_offset + 1]), LAMBDA out :
    Bind(walk_handler(s.hs, child.val, name.val, de.val.e_nid, Len(out), ld, name.n),
         LAMBDA called :
        IF ~IsOk(called) THEN Walked(called, [s EXCEPT !.e = out, !.n = name.n])
        ELSE IF called.val.brk
        THEN Walked(Ok(TRUE), [s EXCEPT !.e = out, !.n = called.n,
                                        !.hs = called.val.hs])
        ELSE [s EXCEPT !.j = s.j + 1, !.cur_offset = s.cur_offset + 1, !.e = out,
                       !.n = called.n, !.hs = called.val.hs])))))

\* the head of `for i in 0..blocks_count` for block i: its entries_count
walk_block(h, st, inode, i, s) ==
    Bind(MapErr(get_entry(h, st, inode, W(i), WZero), "InvalidData"),
         LAMBDA head_entry :
        IF ~IsOk(head_entry) THEN Walked(head_entry, s)
        ELSE [s EXCEPT !.i = i, !.j = 0,
                       !.entries_count = head_entry.val.e_nameoff \div SizeOfDirent])

RECURSIVE walk_entries(_, _, _, _, _, _, _)
\* the two nested loops of walk_children_inodes, from the position s
walk_entries(info, h, st, ld, inode, blocks_count, s) ==
    IF s.tag # "Continue"
    THEN [result |-> s.result, emitted |-> s.emitted, n |-> s.n, hs |-> s.hs]
    ELSE IF s.j < s.entries_count
    THEN walk_entries(info, h, st, ld, inode, blocks_count,
                      walk_entry(info, h, st, ld, inode, s))
    ELSE IF WLt(W(s.i + 1), blocks_count)
    THEN walk_entries(info, h, st, ld, inode, blocks_count,
                      walk_block(h, st, inode, s.i + 1, s))
    ELSE [result |-> Ok(TRUE), emitted |-> s.e, n |-> s.n, hs |-> s.hs]

\* OndiskInodeWrapper::walk_children_inodes(entry_offset, handler): the load
\* n of ld is its self.state(), the loads of entry_name and of the handler
\* follow in the order of the entries
walk_children_inodes(info, h, ld, n, entry_offset, hs) ==
    Bind(Load(ld, n), LAMBDA st :
    Bind(handle_disk_inode(h, st), LAMBDA inode :
        IF ~IsOk(inode)
        THEN [result |-> inode, emitted |-> <<>>, n |-> n + 1, hs |-> hs]
        ELSE IF inode.val.size = WZero
        THEN [result |-> Err("NotFound"), emitted |-> <<>>, n |-> n + 1, hs |-> hs]
        ELSE walk_entries(info, h, st, ld, inode.val,
                          div_round_up(inode.val.size, EROFS_BLOCK_SIZE),
                          walk_block(h, st, inode.val, 0,
                                     [tag |-> "Continue", i |-> 0, j |-> 0,
                                      entries_count |-> 0, skipped |-> entry_offset,
                                      cur_offset |-> entry_offset, e |-> <<>>,
                                      n |-> n + 1, hs |-> hs]))))

\* a handler that returns Break at the brk-th entry it is given
Policy(brk) == [kind |-> "policy", brk |-> brk]

\* OndiskInodeWrapper::get_parent: the handle with parent_inode set; the load
\* n of ld is the is_dir() of the assertion, those of get_child_by_name follow
get_parent(info, h, ld, n) ==
    Try(handle_disk_inode(h, Load(ld, n)), LAMBDA kind :
        IF ~is_dir(kind) THEN Panic("get_parent: assert!(self.is_dir())")
        ELSE TryN(get_child_by_name(info, h, ld, n + 1, DOTDOT), LAMBDA parent, n1 :
                  OkN([h EXCEPT !.parent_inode = Some(ino(info, parent))], n1)))

\* OndiskInodeWrapper::get_name(state): the handle with name set; the load n
\* of ld is the is_dir() of the assertion, those of the parent's walk follow.
\* The handler breaks at the first entry whose nid is cur_ino: that is the
\* first such entry among those a walk that never breaks hands over.
\* Without one the walk's own result decides, and after a walk that returned
\* Ok the handle keeps the name it had: the assertion fails when it had none
get_name(info, h, st, ld, n) ==
    Try(handle_disk_inode(h, Load(ld, n)), LAMBDA kind :
        IF ~is_dir(kind) THEN Panic("get_name: assert!(self.is_dir())")
        ELSE IF ino(info, h) = info.root_ino THEN Ok([h EXCEPT !.name = Some(<<>>)])
        ELSE IF ~h.parent_inode.some
        THEN Panic("parent: assert!(self.parent_inode.is_some())")
        ELSE
    Try(inode_wrapper(info, st, h.parent_inode.v), LAMBDA parent :
    Bind(walk_children_inodes(info, parent, ld, n + 1, 0, Policy(0)), LAMBDA w :
        IF \E k \in 1..Len(w.emitted) : w.emitted[k].nid = ino(info, h)
        THEN Ok([h EXCEPT !.name =
                    Some(w.emitted[CHOOSE k \in 1..Len(w.emitted) :
                                      /\ w.emitted[k].nid = ino(info, h)
                                      /\ \A j \in 1..(k - 1) :
                                            w.emitted[j].nid # ino(info, h)].name)])
        ELSE IF ~IsOk(w.result) THEN w.result
        ELSE IF h.name.some THEN Ok(h)
        ELSE Panic("get_name: assert!(self.name.is_some())"))))

\* DirectSuperBlockV6::get_extended_inode(ino): the load n of ld is its
\* state.load(), then come the is_dir() of the handle and the loads of
\* get_parent and get_name
get_extended_inode(info, ld, n, nid) ==
    Bind(Load(ld, n), LAMBDA st :
    IF nid = W(st.meta.root_nid)
    THEN inode_wrapper_with_info(info, st, nid, nid, <<47>>)
    ELSE Try(inode_wrapper(info, st, nid), LAMBDA inode :
         Try(handle_disk_inode(inode, Load(ld, n + 1)), LAMBDA kind :
             IF is_dir(kind)
             THEN TryN(get_parent(info, inode, ld, n + 2), LAMBDA p, n1 :
                       get_name(info, p, st, ld, n1))
             ELSE Err("NotFound"))))

-----------------------------------------------------------------------------
(* Bootstrap images used as inputs: little-endian encoders of the on-disk   *)
(* records, and the files built from them.                                  *)

LE16(n) == <<n % 256, n \div 256>>
LE32(n) == LE16(n % LIMB) \o LE16(n \div LIMB)
LE64(w) == LE16(w[1]) \o LE16(w[2]) \o LE16(w[3]) \o LE16(w[4])
Zeros(n) == [i \in 1..n |-> 0]

RECURSIVE Concat(_, _)
\* the concatenation of the sequences ss[i..]
Concat(ss, i) == IF i > Len(ss) THEN <<>> ELSE ss[i] \o Concat(ss, i + 1)

\* a compact inode record (32 bytes)
CompactInode(format, xattr, mode, nlink, size, union) ==
    LE16(format) \o LE16(xattr) \o LE16(mode) \o LE16(nlink) \o LE32(size)
        \o Zeros(4) \o LE32(union) \o Zeros(12)

\* an extended inode record (64 bytes); size is a word
ExtendedInode(format, xattr, mode, nlink, size, union) ==
    LE16(format) \o LE16(xattr) \o LE16(mode) \o Zeros(2) \o LE64(size)
        \o LE32(union) \o Zeros(24) \o LE32(nlink) \o Zeros(16)

\* an on-inode chunk address (8 bytes)
ChunkAddr(blob_index, blob_ci_index, block_addr) ==
    LE16(blob_ci_index % LIMB) \o LE16(blob_index + 256 * (blob_ci_index \div LIMB))
        \o LE32(block_addr)

RECURSIVE NamesLen(_, _)
\* the total length of the names of entries[1..n]
NamesLen(entries, n) ==
    IF n = 0 THEN 0 ELSE Len(entries[n].name) + NamesLen(entries, n - 1)

\* one directory block: the dirent array, then the names
DirBlock(entries) ==
    Concat([i \in 1..Len(entries) |->
               LE64(W(entries[i].nid))
                   \o LE16(SizeOfDirent * Len(entries) + NamesLen(entries, i - 1))
                   \o <<entries[i].ft, 0>>], 1)
        \o Concat([i \in 1..Len(entries) |-> entries[i].name], 1)

\* the byte length of a directory made of these blocks (all but the last are
\* a whole block on disk)
DirSize(blocks) ==
    (Len(blocks) - 1) * EROFS_BLOCK_SIZE + Len(DirBlock(blocks[Len(blocks)]))

\* the entries of a directory in block-then-position order
DirEntries(blocks) == Concat(blocks, 1)

E(name, nid) == [name |-> name, nid |-> nid, ft |-> 1]

\* a name of n bytes: the byte c, then n - 1 times 'x'
LongName(c, n) == [i \in 1..n |-> IF i = 1 THEN c ELSE 120]

(* The image holding the directories.  meta_blkaddr = 1: nid n is the slot   *)
(* at 4096 + 32 n.  Leaf inodes (empty regular files) sit at nids 64..95.    *)

\* the byte offset of the inode slot of nid in the input images
SlotBase(nid) == 1 * EROFS_BLOCK_SIZE + EROFS_INODE_SLOT_SIZE * nid

\* root: one short block
RootBlocks ==
    << <<E(DOT, 0), E(DOTDOT, 0), E(<<97>>, 64), E(<<98>>, 65),
         E(<<100, 105, 114>>, 8)>> >>

\* three blocks, the first two NUL-padded to the block end, one entry in the
\* middle block
MultiBlocks ==
    << <<E(DOT, 8), E(DOTDOT, 0), E(<<97, 49>>, 66), E(<<97, 50>>, 67)>>,
       <<E(<<98, 49>>, 68)>>,
       <<E(<<99, 49>>, 69), E(<<99, 50>>, 70), E(<<99, 51, 51>>, 71)>> >>

\* one block filled to its last byte: 18 entries, 4096 bytes
FullBlocks ==
    << <<E(DOT, 16), E(DOTDOT, 0)>>
         \o [i \in 1..15 |-> E(LongName(96 + i, 242), 71 + i)]
         \o <<E(LongName(112, 247), 87)>> >>

\* a short directory stored inline after its inode
InlineBlocks ==
    << <<E(DOT, 24), E(DOTDOT, 0), E(<<102>>, 88), E(<<103, 103>>, 89)>> >>

\* the directories: nid, layout, first data block, content
Dirs ==
    <<[nid |-> 0, layout |-> EROFS_INODE_FLAT_PLAIN, union |-> 2, blocks |-> RootBlocks],
      [nid |-> 8, layout |-> EROFS_INODE_FLAT_PLAIN, union |-> 3, blocks |-> MultiBlocks],
      [nid |-> 16, layout |-> EROFS_INODE_FLAT_PLAIN, union |-> 6, blocks |-> FullBlocks],
      [nid |-> 24, layout |-> EROFS_INODE_FLAT_INLINE, union |-> 0,
       blocks |-> InlineBlocks]>>

DirInodeSeg(d) ==
    [base |-> SlotBase(d.nid),
     data |-> CompactInode(d.layout * 2, 0, S_IFDIR + 493, 2, DirSize(d.blocks), d.union)
                \o (IF d.layout = EROFS_INODE_FLAT_INLINE
                    THEN DirBlock(d.blocks[Len(d.blocks)]) ELSE <<>>)]

DirDataSegs(d) ==
    [i \in 1..(IF d.layout = EROFS_INODE_FLAT_INLINE
               THEN Len(d.blocks) - 1 ELSE Len(d.blocks)) |->
        [base |-> (d.union + i - 1) * EROFS_BLOCK_SIZE, data |-> DirBlock(d.blocks[i])]]

LeafSeg ==
    [base |-> SlotBase(64),
     data |-> Concat([i \in 1..32 |->
                         CompactInode(EROFS_INODE_CHUNK_BASED * 2, 0, S_IFREG + 420,
                                      1, 0, 0)], 1)]

DirImage ==
    [len |-> 8 * EROFS_BLOCK_SIZE,
     segs |-> [i \in 1..Len(Dirs) |-> DirInodeSeg(Dirs[i])]
                \o Concat([i \in 1..Len(Dirs) |-> DirDataSegs(Dirs[i])], 1)
                \o <<LeafSeg>>]

\* RafsSuperMeta (the fields the driver reads)
Meta(meta_blkaddr, root_nid, chunk_size) ==
    [meta_blkaddr |-> meta_blkaddr, root_nid |-> root_nid, chunk_size |-> chunk_size,
     blob_table_offset |-> 0, blob_table_size |-> 0,
     chunk_table_offset |-> 0, chunk_table_size |-> 0, is_chunk_dict |-> FALSE]

DirMeta == Meta(1, 0, 4096)
DirState == [meta |-> DirMeta, blob_table |-> <<>>, map |-> DirImage]
DirInfo == DirectCachedInfo(DirMeta)

-----------------------------------------------------------------------------
(* Values of the concurrent variables while a sequential specification runs *)

ConcIdle ==
    /\ state = 0
    /\ tuples = <<>>
    /\ chunk_map = None
    /\ readers = <<>>
    /\ updater = None
    /\ released = {}
    /\ daemon = None

-----------------------------------------------------------------------------
(* SpecDir: directory calls on the directory image, one call per behaviour. *)

\* names looked up besides the names of the directory: "", "-", "a", "az",
\* "b11", "c3", "g", "zz"
ProbeNames ==
    {<<>>, <<45>>, <<97>>, <<97, 122>>, <<98, 49, 49>>, <<99, 51>>, <<103>>,
     <<122, 122>>}

DirNames(d) == {DirEntries(Dirs[d].blocks)[i].name :
                   i \in 1..Len(DirEntries(Dirs[d].blocks))}

DirRequests ==
    {[op |-> "get_child_by_name", dir |-> d, name |-> n, k |-> 0] :
        d \in {x \in 1..Len(Dirs) : TRUE}, n \in ProbeNames}
    \cup UNION {{[op |-> "get_child_by_name", dir |-> d, name |-> n, k |-> 0] :
                    n \in DirNames(d)} : d \in 1..Len(Dirs)}
    \cup UNION {{[op |-> "walk_resume", dir |-> d, name |-> <<>>, k |-> k] :
                    k \in 0..Len(DirEntries(Dirs[d].blocks))} : d \in 1..Len(Dirs)}
    \cup {[op |-> "get_extended_inode", nid |-> n] :
             n \in {Dirs[d].nid : d \in 1..Len(Dirs)} \cup {1, 64, 65, 1000}}

\* the handle of directory d, as get_inode returns it
DirHandle(d) == get_inode(DirInfo, DirState, W(Dirs[d].nid)).val

DirInit ==
    /\ overflow_checks \in BOOLEAN
    /\ req \in DirRequests
    /\ res = None
    /\ ConcIdle

\* get_child_by_name(name) on the directory's handle
DoGetChildByName ==
    /\ res = None
    /\ req.op = "get_child_by_name"
    /\ \E g \in {get_child_by_name(DirInfo, DirHandle(req.dir), <<DirState>>, 1,
                                    req.name)} :
          res' = Some(IF IsOk(g) THEN Ok(g.val) ELSE g)
    /\ UNCHANGED <<overflow_checks, req, concVars>>

\* walk_children(0) with a handler that breaks after k entries, then
\* walk_children(k) with a handler that never breaks
DoWalkResume ==
    /\ res = None
    /\ req.op = "walk_resume"
    /\ \E w \in {walk_children_inodes(DirInfo, DirHandle(req.dir), <<DirState>>, 1,
                                       0, Policy(req.k))},
          v \in {walk_children_inodes(DirInfo, DirHandle(req.dir), <<DirState>>, 1,
                                       req.k, Policy(0))} :
          res' = Some([first |-> IF req.k = 0
                                 THEN [result |-> Ok(TRUE), emitted |-> <<>>]
                                 ELSE [result |-> w.result, emitted |-> w.emitted],
                       second |-> [result |-> v.result, emitted |-> v.emitted]])
    /\ UNCHANGED <<overflow_checks, req, concVars>>

\* get_extended_inode(nid) on the superblock of the directory image
DoGetExtendedInode ==
    /\ res = None
    /\ req.op = "get_extended_inode"
    /\ res' = Some(get_extended_inode(DirInfo, <<DirState>>, 1, W(req.nid)))
    /\ UNCHANGED <<overflow_checks, req, concVars>>

DirNext == DoGetChildByName \/ DoWalkResume \/ DoGetExtendedInode

SpecDir == DirInit /\ [][DirNext]_vars

-----------------------------------------------------------------------------
(* Chunk resolver.  A blob table is the sequence of its BlobInfo, entry      *)
(* i + 1 for blob index i; a device is the set of <<blob_index,              *)
(* chunk_index>> pairs it cannot resolve.  st is the tuple alloc_bio_vecs    *)
(* loaded into `state`, st2 the tuple the self.size() of chunk_addresses     *)
(* loads, st3 the tuple the self.size() of the window computation loads.     *)

\* RafsV6BlobTable::get(blob_index)
blob_table_get(blob_table, blob_index) ==
    IF blob_index < Len(blob_table) THEN Ok(blob_table[blob_index + 1])
    ELSE Err("NotFound")

\* BlobDevice::create_io_chunk(blob_index, chunk_index)
create_io_chunk(device, blob_index, chunk_index) ==
    IF <<blob_index, chunk_index>> \in device THEN None
    ELSE Some([blob_index |-> blob_index, id |-> chunk_index])

\* BlobIoDesc::new(blob, chunkinfo, offset, size, user_io)
BlobIoDesc(blob, chunkinfo, offset, size, user_io) ==
    [blob |-> blob, chunkinfo |-> chunkinfo, offset |-> offset, size |-> size,
     user_io |-> user_io]

\* OndiskInodeWrapper::make_chunk_io
make_chunk_io(st, device, chunk_addr, content_offset, content_len, user_io) ==
    Bind(blob_table_get(st.blob_table, chunk_addr.blob_index), LAMBDA blob :
        IF ~IsOk(blob) THEN None
        ELSE
    Bind(create_io_chunk(device, blob.val.blob_index, chunk_addr.blob_ci_index),
         LAMBDA v :
        IF ~v.some THEN None
        ELSE Some(BlobIoDesc(blob.val, v.v, content_offset, content_len, user_io))))

\* OndiskInodeWrapper::chunk_addresses(state, head_chunk_index): the slice
\* [off, n] of the chunk addresses from head_chunk_index on
chunk_addresses(info, h, st, st2, head_chunk_index) ==
    Try(handle_disk_inode(h, st), LAMBDA inode :
        IF inode.format \div 2 # EROFS_INODE_CHUNK_BASED
        THEN Panic("chunk_addresses: assert_eq!(layout, EROFS_INODE_CHUNK_BASED)")
        ELSE
    Try(handle_disk_inode(h, st2), LAMBDA sz :
    Bind(AsU32(div_round_up(sz.size, info.chunk_size)), LAMBDA total_chunk_addresses :
    Chk(U32Sub(total_chunk_addresses, head_chunk_index),
        "chunk_addresses: total_chunk_addresses - head_chunk_index", LAMBDA count :
    MapErr(get_slice(st.map,
                     WAdd(W(h.offset + inode_xattr_size(inode)),
                          WMulC(head_chunk_index, SizeOfChunkAddr).v).v,
                     count, SizeOfChunkAddr),
           "InvalidImageData")))))

\* BlobIoVec::new(blob) followed by push(desc)
BlobIoVec(desc) == [blob_index |-> desc.blob.blob_index, descs |-> <<desc>>]

\* alloc_chunk without the blob comparison: the descriptor always joins the
\* current vector (a faulty variant, against which BlobGrouping is tested)
alloc_chunk_one_vector(st, device, chunk_size, chunks, user_io, s) ==
    Bind(WInt(U32Min(W(chunk_size), s.left)), LAMBDA content_len :
    Bind(make_chunk_io(st, device,
                       ChunkAddrAt(st.map, chunks.off + SizeOfChunkAddr * s.k),
                       0, content_len, user_io), LAMBDA desc :
        IF ~desc.some THEN Err("Invalid")
        ELSE
    Bind(U32Sub(s.left, W(content_len)).v, LAMBDA left :
        [tag |-> IF left = WZero THEN "Break" ELSE "Continue",
         vec |-> s.vec,
         descs |-> [s.descs EXCEPT !.descs = Append(s.descs.descs, desc.v)],
         left |-> left,
         k |-> s.k + 1])))

\* the body of `for c in chunks.iter().skip(1)` for chunk k of the slice;
\* s = [vec, descs, left, k] are the loop variables
alloc_chunk(st, device, chunk_size, chunks, user_io, s) ==
    Bind(WInt(U32Min(W(chunk_size), s.left)), LAMBDA content_len :
    Bind(make_chunk_io(st, device,
                       ChunkAddrAt(st.map, chunks.off + SizeOfChunkAddr * s.k),
                       0, content_len, user_io), LAMBDA desc :
        IF ~desc.some THEN Err("Invalid")
        ELSE
    Bind(U32Sub(s.left, W(content_len)).v, LAMBDA left :
        [tag |-> IF left = WZero THEN "Break" ELSE "Continue",
         vec |-> IF desc.v.blob.blob_index # s.descs.blob_index
                 THEN Append(s.vec, s.descs) ELSE s.vec,
         descs |-> IF desc.v.blob.blob_index # s.descs.blob_index
                   THEN BlobIoVec(desc.v)
                   ELSE [s.descs EXCEPT !.descs = Append(s.descs.descs, desc.v)],
         left |-> left,
         k |-> s.k + 1])))

RECURSIVE alloc_loop(_, _, _, _, _, _)
\* the loop over the rest of the chunks, then the tail of alloc_bio_vecs
alloc_loop(st, device, chunk_size, chunks, user_io, s) ==
    IF s.tag = "Err" THEN s
    ELSE IF s.tag = "Continue" /\ s.k < chunks.n
    THEN alloc_loop(st, device, chunk_size, chunks, user_io,
                    alloc_chunk(st, device, chunk_size, chunks, user_io, s))
    ELSE IF s.left # WZero THEN Panic("alloc_bio_vecs: assert_eq!(left, 0)")
    ELSE Ok(Append(s.vec, s.descs))

\* OndiskInodeWrapper::alloc_bio_vecs(device, offset, size, user_io)
alloc_bio_vecs(info, h, st, st2, st3, device, offset, size, user_io) ==
    Bind(WDivC(offset, info.chunk_size), LAMBDA head :
    Try(MapErr(chunk_addresses(info, h, st, st2, AsU32(head.q)), "InvalidData"),
        LAMBDA chunks :
        IF chunks.n = 0 THEN Ok(<<>>)
        ELSE
    Try(handle_disk_inode(h, st3), LAMBDA sz :
    Chk(WSub(sz.size, offset), "alloc_bio_vecs: self.size() - offset", LAMBDA rest :
    Bind(AsU32(WMin(rest, size)), LAMBDA left :
    Bind(WInt(U32Min(W(info.chunk_size - head.r), left)), LAMBDA content_len :
    Bind(make_chunk_io(st, device, ChunkAddrAt(st.map, chunks.off), head.r,
                       content_len, user_io), LAMBDA desc :
        IF ~desc.some THEN Err("Invalid")
        ELSE
    Bind(U32Sub(left, W(content_len)).v, LAMBDA left1 :
        alloc_loop(st, device, info.chunk_size, chunks, user_io,
                   [tag |-> IF left1 = WZero THEN "Break" ELSE "Continue",
                    vec |-> <<>>, descs |-> BlobIoVec(desc.v), left |-> left1,
                    k |-> 1])))))))))

-----------------------------------------------------------------------------
(* The image holding the regular files.  meta_blkaddr = 1; file number f     *)
(* (from 1) is the inode at nid 4 (f - 1): a compact chunk-based inode       *)
(* followed by its chunk addresses.  The file of number f has one of the     *)
(* sizes of FileSizes and one of three blob patterns; chunk k of file f is   *)
(* chunk 16 f + k of its blob.  The last file is larger than 4 GiB: an       *)
(* extended inode of size 2^32 + 100 whose chunk addresses past the third    *)
(* are zero bytes.                                                           *)

\* the most chunks of a file below 4 GiB
MaxChunks == 3

ChunkSizes == {4096, 8192}

FileSizes(cs) == <<0, 1, cs, cs + 1, 2 * cs + 7, MaxChunks * cs>>

NumPatterns == 1 + 2

\* the blob index of chunk k of a file of pattern p
BlobOf(p, k) ==
    IF p = 1 THEN 0 ELSE IF p = 2 THEN k % 2 ELSE (k \div 2) % 2

NumSmallFiles == 6 * NumPatterns

BigFile == NumSmallFiles + 1

BigSize == <<100, 0, 1, 0>>

FileSizeOf(cs, f) ==
    IF f = BigFile THEN BigSize ELSE W(FileSizes(cs)[((f - 1) \div NumPatterns) + 1])

PatternOf(f) == ((f - 1) % NumPatterns) + 1

FileNid(f) == 4 * (f - 1)

\* the chunk address the image holds for chunk k (from 0) of file f
FileChunk(f, k) ==
    IF f = BigFile /\ k >= 3 THEN [blob_index |-> 0, id |-> 0]
    ELSE [blob_index |-> BlobOf(PatternOf(f), k), id |-> 16 * f + k]

\* the number of chunks of a file below 4 GiB
SmallChunkCount(cs, f) == (WInt(FileSizeOf(cs, f)) + cs - 1) \div cs

RegInodeSeg(cs, f) ==
    [base |-> SlotBase(FileNid(f)),
     data |-> IF f = BigFile
              THEN ExtendedInode(2 * EROFS_INODE_CHUNK_BASED + 1, 0, S_IFREG + 420, 1,
                                 BigSize, 0)
                   \o Concat([k \in 1..3 |->
                                 ChunkAddr(FileChunk(f, k - 1).blob_index,
                                           FileChunk(f, k - 1).id, k)], 1)
              ELSE CompactInode(2 * EROFS_INODE_CHUNK_BASED, 0, S_IFREG + 420, 1,
                                WInt(FileSizeOf(cs, f)), 0)
                   \o Concat([k \in 1..SmallChunkCount(cs, f) |->
                                 ChunkAddr(FileChunk(f, k - 1).blob_index,
                                           FileChunk(f, k - 1).id, k)], 1)]

RegImage(cs) ==
    [len |-> 4096 * 4096,
     segs |-> [f \in 1..BigFile |-> RegInodeSeg(cs, f)]]

RegBlobTable == <<[blob_index |-> 0], [blob_index |-> 1]>>

RegStates ==
    [cs \in ChunkSizes |->
        [meta |-> Meta(1, 0, cs), blob_table |-> RegBlobTable, map |-> RegImage(cs)]]

RegInfos == [cs \in ChunkSizes |-> DirectCachedInfo(Meta(1, 0, cs))]

-----------------------------------------------------------------------------
(* SpecAlloc: alloc_bio_vecs on the regular files, one call per behaviour.  *)

\* the offsets asked of a file of size sz below 4 GiB
SmallOffsets(cs, sz) ==
    {o \in {0, 1, cs - 1, cs, cs + 1, sz - 1, sz, sz + 1, sz + cs} : o >= 0}

\* the lengths asked: small ones, and 2^32, 2^32 + 100, 2^32 + 2 cs + 5
Lengths(cs) ==
    {W(n) : n \in {0, 1, cs - 1, cs, cs + 1, 2 * cs, MaxChunks * cs + 5}}
    \cup {<<0, 0, 1, 0>>, BigSize, <<2 * cs + 5, 0, 1, 0>>}

\* the environments of a call: bad is the set of the chunks of the file (by
\* position) that the device cannot resolve, blobs the number of blobs the
\* blob table holds
AllResolved == [bad |-> {}, blobs |-> Len(RegBlobTable)]

Unresolved ==
    {[AllResolved EXCEPT !.bad = {k}] : k \in 0..(MaxChunks - 1)}
    \cup {[AllResolved EXCEPT !.blobs = 1]}

\* the lengths asked when something cannot be resolved
FewLengths(cs) == {WZero, W(1), W(cs + 1), W(MaxChunks * cs + 5), <<0, 0, 1, 0>>}

ResolvedRequests ==
    UNION {UNION {{[op |-> "alloc_bio_vecs", cs |-> cs, file |-> f, o |-> W(o),
                    l |-> l, env |-> AllResolved] :
                      o \in SmallOffsets(cs, WInt(FileSizeOf(cs, f))), l \in Lengths(cs)} :
                  f \in 1..NumSmallFiles} : cs \in ChunkSizes}
    \cup UNION {{[op |-> "alloc_bio_vecs", cs |-> cs, file |-> BigFile, o |-> o,
                  l |-> l, env |-> AllResolved] :
                    o \in {WZero, W(1), W(100), <<95, 0, 1, 0>>, BigSize},
                    l \in Lengths(cs)} :
                cs \in ChunkSizes}

AllocRequests ==
    ResolvedRequests
    \cup {[r EXCEPT !.env = e] : r \in {q \in ResolvedRequests : q.l \in FewLengths(q.cs)},
                                 e \in Unresolved}

\* the device of a request: the pairs it cannot resolve
DeviceOf(r) == {<<FileChunk(r.file, k).blob_index, FileChunk(r.file, k).id>> : k \in r.env.bad}

\* the tuple of a request: the image of its chunk size with its blob table
AllocState(r) ==
    [RegStates[r.cs] EXCEPT !.blob_table = SubSeq(RegBlobTable, 1, r.env.blobs)]

AllocInit ==
    /\ overflow_checks \in BOOLEAN
    /\ req \in AllocRequests
    /\ res = None
    /\ ConcIdle

\* get_inode(nid of the file), then alloc_bio_vecs(device, o, l, true) on the
\* handle
DoAllocBioVecs ==
    /\ res = None
    /\ req.op = "alloc_bio_vecs"
    /\ res' = Some(Try(get_inode(RegInfos[req.cs], AllocState(req),
                                 W(FileNid(req.file))), LAMBDA h :
                       alloc_bio_vecs(RegInfos[req.cs], h, AllocState(req),
                                      AllocState(req), AllocState(req), DeviceOf(req),
                                      req.o, req.l, TRUE)))
    /\ UNCHANGED <<overflow_checks, req, concVars>>

AllocNext == DoAllocBioVecs

SpecAlloc == AllocInit /\ [][AllocNext]_vars

-----------------------------------------------------------------------------
(* Properties of alloc_bio_vecs, stated on SpecAlloc.                        *)

\* the descriptors of a result, the vectors flattened in order
Flatten(vecs) == Concat([i \in 1..Len(vecs) |-> vecs[i].descs], 1)

RECURSIVE SumSizes(_, _)
\* the sum of content_len over the first n descriptors
SumSizes(D, n) == IF n = 0 THEN 0 ELSE SumSizes(D, n - 1) + D[n].size

\* the request is answered
AllocDone == res.some /\ req.op = "alloc_bio_vecs"

\* min(S - o, L) of the request, for o <= S
AllocWindow == WMin(WSub(FileSizeOf(req.cs, req.file), req.o).v, req.l)

\* the k-th descriptor is built from chunk address (o div C) + k - 1
InChunkOrder(D) ==
    \A k \in 1..Len(D) :
        /\ D[k].chunkinfo.id
             = FileChunk(req.file, WInt(WDivC(req.o, req.cs).q) + k - 1).id
        /\ D[k].blob.blob_index
             = FileChunk(req.file, WInt(WDivC(req.o, req.cs).q) + k - 1).blob_index

\* C3 (chunk coverage): for a request with o <= S, every chunk resolvable, the
\* call succeeds, the
\* first descriptor has content_offset = o mod C and content_len = min(C -
\* o mod C, min(S - o, L)), each later one has content_offset 0 and
\* content_len = min(C, remaining), the lengths sum to min(S - o, L), and
\* the k-th descriptor is built from chunk address (o div C) + k - 1.
ChunkCoverage ==
    (AllocDone /\ req.env = AllResolved /\ WLe(req.o, FileSizeOf(req.cs, req.file))) =>
        /\ IsOk(res.v)
        /\ LET D == Flatten(res.v.val)
               r == WDivC(req.o, req.cs).r
           IN /\ W(SumSizes(D, Len(D))) = AllocWindow
              /\ InChunkOrder(D)
              /\ \A k \in 1..Len(D) :
                    /\ D[k].offset = IF k = 1 THEN r ELSE 0
                    /\ W(D[k].size)
                         = WMin(W(IF k = 1 THEN req.cs - r ELSE req.cs),
                                WSub(AllocWindow, W(SumSizes(D, k - 1))).v)

\* C4 (blob grouping): in a successful result every vector is non-empty and
\* its descriptors have the vector's blob index, two adjacent vectors have
\* different blob indices, and the flattened descriptors are in chunk order.
BlobGrouping ==
    (AllocDone /\ IsOk(res.v)) =>
        LET V == res.v.val
        IN /\ \A i \in 1..Len(V) :
                 /\ Len(V[i].descs) > 0
                 /\ \A j \in 1..Len(V[i].descs) :
                       /\ V[i].descs[j].blob.blob_index = V[i].blob_index
                       /\ V[i].descs[j].blob.blob_index = V[i].descs[1].blob.blob_index
           /\ \A i \in 1..(Len(V) - 1) :
                 V[i].descs[Len(V[i].descs)].blob.blob_index
                    # V[i + 1].descs[1].blob.blob_index
           /\ InChunkOrder(Flatten(V))

\* a successful result of two or more vectors, one of them holding two or
\* more descriptors
BlobGroupingWitness ==
    /\ AllocDone
    /\ IsOk(res.v)
    /\ Len(res.v.val) >= 2
    /\ \E i \in 1..Len(res.v.val) : Len(res.v.val[i].descs) >= 2

-----------------------------------------------------------------------------
(* Properties of the directory reader, stated on SpecDir.                    *)

\* the entries of directory d in block-then-position order
EntriesOf(d) == DirEntries(Dirs[d].blocks)

\* the names of directory d are strictly increasing bytewise, within and
\* across blocks
DirSorted(d) ==
    \A i \in 1..(Len(EntriesOf(d)) - 1) :
        /\ BytesLe(EntriesOf(d)[i].name, EntriesOf(d)[i + 1].name)
        /\ EntriesOf(d)[i].name # EntriesOf(d)[i + 1].name

\* the nid of the first entry of directory d named name
FirstNid(d, name) ==
    EntriesOf(d)[CHOOSE i \in 1..Len(EntriesOf(d)) :
                    /\ EntriesOf(d)[i].name = name
                    /\ \A j \in 1..(i - 1) : EntriesOf(d)[j].name # name].nid

\* C5 (lookup consistency): in a sorted directory, get_child_by_name of a
\* name present in it returns a child whose nid is the nid of the first entry
\* of that name in walk order.
LookupConsistency ==
    (res.some /\ req.op = "get_child_by_name" /\ DirSorted(req.dir)
        /\ req.name \in DirNames(req.dir)) =>
        /\ IsOk(res.v)
        /\ ino(DirInfo, res.v.val) = W(FirstNid(req.dir, req.name))

\* C6 (readdir resume): for every split k, the entries emitted by
\* walk_children(0) up to a Break after k entries followed by those emitted
\* by walk_children(k) are the entries of the directory in order, both walks
\* succeed, and the offset handed with the i-th entry is i.
ReaddirResume ==
    (res.some /\ req.op = "walk_resume") =>
        LET got == res.v.first.emitted \o res.v.second.emitted
        IN /\ IsOk(res.v.first.result)
           /\ IsOk(res.v.second.result)
           /\ Len(res.v.first.emitted) = req.k
           /\ Len(got) = Len(EntriesOf(req.dir))
           /\ \A i \in 1..Len(got) :
                 /\ got[i].name = EntriesOf(req.dir)[i].name
                 /\ got[i].nid = W(EntriesOf(req.dir)[i].nid)
                 /\ got[i].offset = i

\* C8 (missing child): get_child_by_name of a name that is not an entry of
\* the directory returns NotFound: it does not panic, underflow or diverge.
MissingChild ==
    (res.some /\ req.op = "get_child_by_name"
        /\ req.name \notin DirNames(req.dir)) =>
        res.v = Err("NotFound")

-----------------------------------------------------------------------------
(* SpecInode: get_inode on the directory image, one call per behaviour.      *)

\* the nids asked: the first slots, the slots around the end of the file,
\* and nids around 2^59 (where nid * 32 reaches 2^64) and 2^64 - 1
InodeRequests ==
    {[op |-> "get_inode", nid |-> W(n)] : n \in (0..47) \cup {894, 895, 896, 897, 1000}}
    \cup {[op |-> "get_inode", nid |-> w] :
             w \in {<<0, 0, 0, 2048>>, <<1, 0, 0, 2048>>, <<65535, 65535, 65535, 2047>>,
                    <<65408, 65535, 65535, 2047>>, <<65407, 65535, 65535, 2047>>,
                    WMax}}

InodeInit ==
    /\ overflow_checks \in BOOLEAN
    /\ req \in InodeRequests
    /\ res = None
    /\ ConcIdle

\* get_inode(nid) on the superblock of the directory image
DoGetInode ==
    /\ res = None
    /\ req.op = "get_inode"
    /\ res' = Some(get_inode(DirInfo, DirState, req.nid))
    /\ UNCHANGED <<overflow_checks, req, concVars>>

InodeNext == DoGetInode

SpecInode == InodeInit /\ [][InodeNext]_vars

\* meta_offset + nid * 32 computed without wrap-around is the start of 32
\* bytes inside the mapped file
SlotInside(info, st, nid) ==
    /\ ~WMulC(nid, EROFS_INODE_SLOT_SIZE).of
    /\ ~WAdd(info.meta_offset, WMulC(nid, EROFS_INODE_SLOT_SIZE).v).of
    /\ IsOk(get_ref(st.map, WAdd(info.meta_offset,
                                 WMulC(nid, EROFS_INODE_SLOT_SIZE).v).v,
                    SizeOfInodeCompact))

\* C7 (mapping safety): when get_inode succeeds the slot
\* [meta_offset + nid * 32, + inode size) lies inside the file and the handle
\* holds that offset; when meta_offset + nid * 32 leaves the file, also by
\* wrap-around, get_inode returns InvalidData.
MappingSafety ==
    (res.some /\ req.op = "get_inode") =>
        IF SlotInside(DirInfo, DirState, req.nid)
        THEN IsOk(res.v) =>
                /\ W(res.v.val.offset)
                     = WAdd(DirInfo.meta_offset,
                            WMulC(req.nid, EROFS_INODE_SLOT_SIZE).v).v
                /\ res.v.val.offset
                     + inode_size(handle_disk_inode(res.v.val, DirState).val)
                     <= DirState.map.len
        ELSE res.v = Err("InvalidData")

-----------------------------------------------------------------------------
(* Hot swap.  The superblock holds `state`, the published state tuple, and   *)
(* info.chunk_map, the lazy chunk index.  `tuples` is the sequence of the    *)
(* tuples ever built, `state` the position of the published one.  A          *)
(* bootstrap file given to load/update is [len, segs, blobs]: its bytes and  *)
(* what RafsV6BlobTable::load makes of its blob table.                       *)

\* RafsSuperMeta::default(), the fields the driver reads
RafsSuperMeta_default == Meta(0, 0, 0)

\* DirectMappingState::new(meta)
DirectMappingState_new(meta) ==
    [meta |-> meta, blob_table |-> <<>>, map |-> [len |-> 0, segs |-> <<>>]]

\* MetaRange::new(start, size, aligned_size)
MetaRange_new(start, size, aligned_size) ==
    IF start[1] % 8 = 0 /\ (~aligned_size \/ size[1] % 8 = 0) /\ ~WAdd(start, size).of
    THEN Ok([start |-> start, size |-> size])
    ELSE Err("Invalid")

\* MetaRange::is_subrange_of
is_subrange_of(a, b) ==
    WLe(b.start, a.start) /\ WLe(WAdd(a.start, a.size).v, WAdd(b.start, b.size).v)

\* update_state up to the validation of the blob table range, for a file of
\* len bytes and the tuple old_state that self.state.load() returned
update_state_validate(len, old_state) ==
    Chk(WSub(len, W(EROFS_BLOCK_SIZE)), "update_state: len - EROFS_BLOCK_SIZE",
        LAMBDA size :
    Try(MetaRange_new(W(EROFS_BLOCK_SIZE), size, TRUE), LAMBDA md_range :
    Try(MetaRange_new(W(old_state.meta.blob_table_offset),
                      W(old_state.meta.blob_table_size), FALSE),
        LAMBDA blob_table_range :
        IF ~is_subrange_of(blob_table_range, md_range) THEN Err("BadFd")
        ELSE Ok(TRUE))))

\* update_state building the new tuple around the meta of an empty superblock
\* instead of the clone of old_state.meta (a faulty variant: MetaKept does
\* not hold of it)
update_state_tuple_fresh_meta(old_state, blob_table, file) ==
    [meta |-> RafsSuperMeta_default, blob_table |-> blob_table,
     map |-> [len |-> file.len, segs |-> file.segs]]

\* the tuple update_state builds from old_state, the parsed blob table and
\* the mapped file
update_state_tuple(old_state, blob_table, file) ==
    [meta |-> old_state.meta, blob_table |-> blob_table,
     map |-> [len |-> file.len, segs |-> file.segs]]

\* RafsV5ChunkInfo at off (the fields the driver reads)
V5ChunkAt(f, off) ==
    [blob_index |-> ReadU32(f, off + 32),
     uncompressed_offset |-> ReadU64(f, off + 56),
     index |-> ReadU32(f, off + 72)]

\* DirectChunkInfoV6::new(state, mapping, idx)
DirectChunkInfoV6_new(st, idx) ==
    Chk(WMulC(idx, SizeOfV5ChunkInfo), "DirectChunkInfoV6::new: idx * unit_size",
        LAMBDA m :
    Chk(WAdd(W(st.meta.chunk_table_offset), m),
        "DirectChunkInfoV6::new: chunk_table_offset + idx * unit_size", LAMBDA offset :
    Chk(WAdd(W(st.meta.chunk_table_offset), W(st.meta.chunk_table_size)),
        "DirectChunkInfoV6::new: chunk_table_offset + chunk_table_size",
        LAMBDA chunk_tbl_end :
    Chk(WAdd(offset, W(SizeOfV5ChunkInfo)), "DirectChunkInfoV6::new: offset + unit_size",
        LAMBDA end :
        IF WLt(offset, W(st.meta.chunk_table_offset)) \/ WLt(chunk_tbl_end, end)
        THEN Err("Invalid")
        ELSE Try(get_ref(st.map, offset, SizeOfV5ChunkInfo), LAMBDA o :
                 Ok([offset |-> o,
                     digest |-> SliceBytes(st.map, [off |-> o, n |-> 32])]))))))

\* the RafsV6InodeChunkAddr that load_chunk_map makes of a chunk table row
RowChunkAddr(row) ==
    [blob_index |-> row.blob_index[1] % 256,
     blob_ci_index |-> row.index[1] + (row.index[2] % 256) * LIMB,
     block_addr |-> AsU32(WDivC(row.uncompressed_offset, EROFS_BLOCK_SIZE).q)]

\* an accessor of DirectChunkInfoV6 (blob_index(), id(), uncompressed_offset()):
\* self.state(), then v5_chunk(&state) on the tuple rd that this load returned
v5_chunk(rd, chunk) ==
    IF IsOk(get_ref(rd.map, W(chunk.offset), SizeOfV5ChunkInfo))
    THEN Ok(V5ChunkAt(rd.map, chunk.offset))
    ELSE Panic("v5_chunk: unwrap on Err")

\* HashMap::insert(key, idx): a map is the set of its [key, idx]
chunk_map_insert(map, key, idx) ==
    {e \in map : e.key # key} \cup {[key |-> key, idx |-> idx]}

\* what load_chunk_map leaves: its result and the number of the next load
Loaded(result, n) == [result |-> result, n |-> n]

RECURSIVE load_chunk_rows(_, _, _, _, _, _)
\* `for idx in 0..rows` of load_chunk_map, from idx on; acc is the map so
\* far.  The three accessors of a row load the state one after the other:
\* the loads n, n + 1 and n + 2 of ld
load_chunk_rows(st, ld, n, rows, idx, acc) ==
    IF idx = rows THEN Loaded(Ok(acc), n)
    ELSE
    Bind(DirectChunkInfoV6_new(st, W(idx)), LAMBDA chunk :
        IF ~IsOk(chunk) THEN Loaded(chunk, n)
        ELSE
    Bind(v5_chunk(Load(ld, n), chunk.val), LAMBDA b :
        IF ~IsOk(b) THEN Loaded(b, n + 1)
        ELSE
    Bind(v5_chunk(Load(ld, n + 1), chunk.val), LAMBDA i :
        IF ~IsOk(i) THEN Loaded(i, n + 2)
        ELSE
    Bind(v5_chunk(Load(ld, n + 2), chunk.val), LAMBDA u :
        IF ~IsOk(u) THEN Loaded(u, n + 3)
        ELSE load_chunk_rows(st, ld, n + 3, rows, idx + 1,
                 chunk_map_insert(acc,
                     RowChunkAddr([blob_index |-> b.val.blob_index,
                                   index |-> i.val.index,
                                   uncompressed_offset |-> u.val.uncompressed_offset]),
                     idx))))))

\* DirectSuperBlockV6::load_chunk_map: the load n of ld is its
\* self.state.load(), those of the accessors of the rows follow
load_chunk_map(ld, n) ==
    Bind(Load(ld, n), LAMBDA st :
        IF st.meta.chunk_table_size = 0 THEN Loaded(Ok({}), n + 1)
        ELSE IF st.meta.chunk_table_size % SizeOfV5ChunkInfo # 0
        THEN Loaded(Err("Invalid"), n + 1)
        ELSE load_chunk_rows(st, ld, n + 1,
                             st.meta.chunk_table_size \div SizeOfV5ChunkInfo, 0, {}))

\* HashMap::get on the map of load_chunk_map
chunk_map_get(map, addr) ==
    IF \E e \in map : e.key = addr
    THEN Some((CHOOSE e \in map : e.key = addr).idx)
    ELSE None

(* Operations of a handle that load the state themselves.  Each takes the   *)
(* tuples its loads returned, in the order of the loads.                     *)

\* OndiskInodeWrapper::size
handle_size(h, st) == Try(handle_disk_inode(h, st), LAMBDA i : Ok(i.size))

\* OndiskInodeWrapper::get_attr (ino, size, mode, nlink, blocks)
get_attr(info, h, st) ==
    Try(handle_disk_inode(h, st), LAMBDA inode :
        Ok([ino |-> ino(info, h), size |-> inode.size, mode |-> inode.mode,
            nlink |-> inode.nlink, blocks |-> div_round_up(inode.size, 512)]))

RECURSIVE child_cnt_blocks(_, _, _, _, _, _)
\* `for i in 0..blocks_count` of get_child_count, from block i on; child_cnt
\* stays far below 2^32 because every counted block lies inside the file
child_cnt_blocks(h, st, inode, blocks_count, i, child_cnt) ==
    IF ~WLt(W(i), blocks_count) THEN Ok(child_cnt)
    ELSE Bind(get_entry(h, st, inode, W(i), WZero), LAMBDA head_entry :
            IF IsErr(head_entry) THEN Panic("get_child_count: unwrap on Err")
            ELSE IF ~IsOk(head_entry) THEN head_entry
            ELSE child_cnt_blocks(h, st, inode, blocks_count, i + 1,
                     child_cnt + (head_entry.val.e_nameoff \div SizeOfDirent)))

\* OndiskInodeWrapper::get_child_count: the load n of ld is is_dir(); a
\* handle that is no directory then loads in size(), a directory in state()
\* and in the size() of blocks_count
get_child_count(info, h, ld, n) ==
    Try(handle_disk_inode(h, Load(ld, n)), LAMBDA kind :
        IF ~is_dir(kind)
        THEN Try(handle_disk_inode(h, Load(ld, n + 1)), LAMBDA sz :
                 Ok(AsU32(div_round_up(sz.size, info.chunk_size))))
        ELSE
    Bind(Load(ld, n + 1), LAMBDA st :
    Try(handle_disk_inode(h, st), LAMBDA inode :
    Try(handle_disk_inode(h, Load(ld, n + 2)), LAMBDA sz :
    Try(child_cnt_blocks(h, st, inode, div_round_up(sz.size, EROFS_BLOCK_SIZE),
                         0, 0), LAMBDA child_cnt :
    Chk(U32Sub(W(child_cnt), W(2)), "get_child_count: child_cnt - 2", LAMBDA c :
        Ok(c)))))))

\* does get_chunk_info on handle h, whose loads so far returned ld, load the
\* state once more before it takes the lock?  It loads in state(), in
\* is_reg(), and in get_child_count: is_dir() and size() (for a directory:
\* is_dir(), state() and size())
LoadsBeforeLock(h, ld) ==
    IF Len(ld) = 0 THEN TRUE
    ELSE IF Len(ld) = 1 THEN IsOk(handle_disk_inode(h, ld[1]))
    ELSE IF Len(ld) = 2
    THEN \E i \in {handle_disk_inode(h, ld[2])} : IsOk(i) /\ is_reg(i.val)
    ELSE IF Len(ld) = 3 THEN IsOk(handle_disk_inode(h, ld[3]))
    ELSE /\ Len(ld) = 4
         /\ is_dir(handle_disk_inode(h, ld[3]).val)
         /\ IsOk(handle_disk_inode(h, ld[4]))

RECURSIVE LoadsToLock(_, _, _)
\* the number of loads get_chunk_info makes before the lock, when its loads
\* return ld and it has made k of them
LoadsToLock(h, ld, k) ==
    IF LoadsBeforeLock(h, [j \in 1..k |-> Load(ld, j)]) THEN LoadsToLock(h, ld, k + 1)
    ELSE k

\* get_chunk_info up to the lock: state(), is_reg(), get_chunk_count() and
\* the reference to the idx-th chunk address; the result and the number of
\* the next load
chunk_addr_ref(info, h, ld, idx) ==
    Bind(LoadsToLock(h, ld, 1) + 1, LAMBDA n :
    Bind(Load(ld, 1), LAMBDA st :
    Bind(handle_disk_inode(h, st), LAMBDA inode :
        IF ~IsOk(inode) THEN Loaded(inode, n)
        ELSE
    Bind(handle_disk_inode(h, Load(ld, 2)), LAMBDA reg :
        IF ~IsOk(reg) \/ ~is_reg(reg.val)
        THEN Loaded(IF IsOk(reg) THEN Err("NotFound") ELSE reg, n)
        ELSE
    Bind(get_child_count(info, h, ld, 3), LAMBDA count :
        IF ~IsOk(count) THEN Loaded(count, n)
        ELSE IF ~WLt(idx, count.val) THEN Loaded(Err("NotFound"), n)
        ELSE Loaded(get_ref(st.map, WAdd(W(h.offset + inode_xattr_size(inode.val)),
                                         WMulC(idx, SizeOfChunkAddr).v).v,
                            SizeOfChunkAddr), n))))))

\* get_chunk_info after the index is there: the lookup of the chunk address
\* and DirectChunkInfoV6::new on the row found
chunk_info_of(st, map, a) ==
    Bind(chunk_map_get(map, ChunkAddrAt(st.map, a)), LAMBDA row :
        IF ~row.some THEN Err("NotFound") ELSE DirectChunkInfoV6_new(st, W(row.v)))

\* info.chunk_map after a thread panicked with the lock held, the Mutex
\* holding cm: the Mutex is poisoned, and no call reads what it holds
Poisoned(cm) == [some |-> FALSE, poisoned |-> cm]

IsPoisoned(cm) == "poisoned" \in DOMAIN cm

(* The bootstrap files given to load/update.  meta_blkaddr = 1; nid 0 is a  *)
(* chunk-based regular file; the chunk table is block 2 and the blob table  *)
(* follows it.                                                               *)

\* a chunk table row (80 bytes): digest byte d, then the fields
V5Chunk(d, blob_index, uncompressed_offset, index) ==
    <<d>> \o Zeros(31) \o LE32(blob_index) \o Zeros(20)
        \o LE64(W(uncompressed_offset)) \o Zeros(8) \o LE32(index) \o Zeros(4)

ConcMeta ==
    [Meta(1, 0, 4096) EXCEPT !.blob_table_offset = 2 * EROFS_BLOCK_SIZE + 160,
                             !.blob_table_size = 8,
                             !.chunk_table_offset = 2 * EROFS_BLOCK_SIZE,
                             !.chunk_table_size = 2 * SizeOfV5ChunkInfo]

ConcInfo == DirectCachedInfo(ConcMeta)

\* a file of len bytes whose nid 0 has the given size and chunks (a sequence
\* of [blob, id, blk]) and whose chunk table has one row per chunk, in order
ConcFile(len, size, chunks, blobs) ==
    [len |-> len,
     segs |-> <<[base |-> SlotBase(0),
                 data |-> CompactInode(2 * EROFS_INODE_CHUNK_BASED, 0, S_IFREG + 420,
                                       1, size, 0)
                          \o Concat([k \in 1..Len(chunks) |->
                                        ChunkAddr(chunks[k].blob, chunks[k].id,
                                                  chunks[k].blk)], 1)],
                [base |-> 2 * EROFS_BLOCK_SIZE,
                 data |-> Concat([k \in 1..Len(chunks) |->
                                    V5Chunk(chunks[k].id, chunks[k].blob,
                                            chunks[k].blk * EROFS_BLOCK_SIZE,
                                            chunks[k].id)], 1)]>>,
     blobs |-> blobs]

\* two good files that differ in size and in the order of their chunks; a
\* file that ends before the blob table; a file shorter than a block; a file
\* whose blob table does not parse
Files ==
    <<ConcFile(3 * EROFS_BLOCK_SIZE, 2 * EROFS_BLOCK_SIZE,
               <<[blob |-> 0, id |-> 5, blk |-> 1], [blob |-> 0, id |-> 6, blk |-> 2]>>,
               Ok(<<[blob_index |-> 0]>>)),
      ConcFile(3 * EROFS_BLOCK_SIZE, EROFS_BLOCK_SIZE + 10,
               <<[blob |-> 0, id |-> 6, blk |-> 2], [blob |-> 0, id |-> 5, blk |-> 1]>>,
               Ok(<<[blob_index |-> 0]>>)),
      ConcFile(EROFS_BLOCK_SIZE, 0, <<>>, Ok(<<>>)),
      ConcFile(96, 0, <<>>, Ok(<<>>)),
      ConcFile(3 * EROFS_BLOCK_SIZE, 2 * EROFS_BLOCK_SIZE,
               <<[blob |-> 0, id |-> 5, blk |-> 1], [blob |-> 0, id |-> 6, blk |-> 2]>>,
               Err("Invalid"))>>

-----------------------------------------------------------------------------
(* Spec: one thread calling load/update/destroy and reader threads using    *)
(* handles, interleaved at every load and store of `state` and at the lock  *)
(* of info.chunk_map.                                                        *)

\* the most calls of load/update/destroy in a behaviour
MaxUpdates == 2

\* the most calls of each reader in a behaviour, get_inode among them
MaxOps == 3

Readers == {"r1"}

\* the calls a reader makes on its handle
Calls ==
    {[op |-> "size", o |-> WZero, l |-> WZero, idx |-> WZero],
     [op |-> "get_attr", o |-> WZero, l |-> WZero, idx |-> WZero],
     [op |-> "alloc_bio_vecs", o |-> WZero, l |-> W(2 * EROFS_BLOCK_SIZE), idx |-> WZero],
     [op |-> "get_chunk_info", o |-> WZero, l |-> WZero, idx |-> WZero]}

\* the updater between calls, after `calls` calls
UpdaterIdle(calls) ==
    [pc |-> "idle", calls |-> calls, file |-> 0, old |-> 0, blob_table |-> <<>>,
     result |-> None, was |-> 0, stores |-> 0]

\* a reader that holds no handle, after `ops` calls
ReaderNone(ops) ==
    [pc |-> "none", h |-> None, born |-> 0, call |-> None, snaps |-> <<>>,
     pre |-> 0, built |-> None, out |-> None, ops |-> ops]

Init ==
    /\ overflow_checks \in BOOLEAN
    /\ req = [op |-> "hot_swap"]
    /\ res = None
    /\ tuples = <<DirectMappingState_new(ConcMeta)>>
    /\ state = 1
    /\ chunk_map = None
    /\ readers = [r \in Readers |-> ReaderNone(0)]
    /\ updater = UpdaterIdle(0)
    /\ released = {}
    /\ daemon = None

\* the positions at which a call holds the MutexGuard of info.chunk_map:
\* while load_chunk_map runs, after it returned, and with the index there
LockPcs == {"locked", "built", "have"}

\* does a snapshot guard on tuple i exist?  A running call of a handle keeps
\* the guard of its first load until it returns (before the lock, under the
\* lock, and after the lock is released), and load_chunk_map keeps the guard
\* of its load (the first under the lock) until it returns; the guards of the
\* other loads are taken and dropped inside the step of the load.
\* update_state keeps old_state from its load until it returns
Held(i) ==
    \/ \E r \in DOMAIN readers : /\ readers[r].pc \in LockPcs \cup {"run", "unlocked"}
                                  /\ Len(readers[r].snaps) >= 1
                                  /\ readers[r].snaps[1] = i
    \/ \E r \in DOMAIN readers : /\ readers[r].pc = "locked"
                                  /\ Len(readers[r].snaps) > readers[r].pre
                                  /\ readers[r].snaps[readers[r].pre + 1] = i
    \/ updater.pc \in {"validated", "parsed", "mapped", "done"} /\ updater.old = i

\* the strong count of tuple i is not zero: the ArcSwap or a guard points to it
Referenced(i) == state = i \/ Held(i)

\* Arc::drop after the step gave up references to the tuples in S: the
\* destructor of a tuple runs when nothing points to it any more
Release(S) == released' = released \cup {i \in S : ~Referenced(i)'}

\* the updater's call has ended with result r
UpdateEnds(r) ==
    /\ updater' = [updater EXCEPT !.pc = "done", !.result = Some(r)]
    /\ UNCHANGED <<state, tuples>>

\* update_state: clone_file and file.metadata() on one of the files
UpdateOpen ==
    /\ updater.pc = "idle"
    /\ updater.calls < MaxUpdates
    /\ \E f \in 1..Len(Files), io_ok \in BOOLEAN :
          updater' = [UpdaterIdle(updater.calls + 1) EXCEPT
                          !.pc = IF io_ok THEN "opened" ELSE "done",
                          !.file = f,
                          !.result = IF io_ok THEN None ELSE Some(Err("Io")),
                          !.was = state]
    /\ UNCHANGED <<overflow_checks, req, res, daemon, state, tuples, chunk_map, readers,
                   released>>

\* update_state: self.state.load(), then the two ranges and their comparison
UpdateValidate ==
    /\ updater.pc = "opened"
    /\ \E r \in {update_state_validate(W(Files[updater.file].len), tuples[state])} :
          IF IsOk(r)
          THEN /\ updater' = [updater EXCEPT !.pc = "validated", !.old = state]
               /\ UNCHANGED <<state, tuples>>
          ELSE UpdateEnds(r)
    /\ UNCHANGED <<overflow_checks, req, res, daemon, chunk_map, readers, released>>

\* update_state: seek to the blob table and RafsV6BlobTable::load
UpdateParse ==
    /\ updater.pc = "validated"
    /\ \E io_ok \in BOOLEAN :
          IF io_ok /\ IsOk(Files[updater.file].blobs)
          THEN /\ updater' = [updater EXCEPT !.pc = "parsed",
                                             !.blob_table = Files[updater.file].blobs.val]
               /\ UNCHANGED <<state, tuples>>
          ELSE UpdateEnds(IF io_ok THEN Files[updater.file].blobs ELSE Err("Io"))
    /\ UNCHANGED <<overflow_checks, req, res, daemon, chunk_map, readers, released>>

\* update_state: FileMapState::new
UpdateMap ==
    /\ updater.pc = "parsed"
    /\ \E map_ok \in BOOLEAN :
          IF map_ok
          THEN /\ updater' = [updater EXCEPT !.pc = "mapped"]
               /\ UNCHANGED <<state, tuples>>
          ELSE UpdateEnds(Err("Io"))
    /\ UNCHANGED <<overflow_checks, req, res, daemon, chunk_map, readers, released>>

\* update_state: self.state.store(Arc::new(state)), then Ok(())
UpdateStore ==
    /\ updater.pc = "mapped"
    /\ tuples' = Append(tuples, update_state_tuple(tuples[updater.old],
                                                   updater.blob_table,
                                                   Files[updater.file]))
    /\ state' = Len(tuples) + 1
    /\ updater' = [updater EXCEPT !.pc = "done", !.result = Some(Ok(TRUE)),
                                  !.stores = updater.stores + 1]
    /\ UNCHANGED <<overflow_checks, req, res, daemon, chunk_map, readers>>
    /\ Release({state})

\* the call of load/update returns to its caller and drops old_state, if it
\* came as far as loading it (old is 0 otherwise)
UpdateReturn ==
    /\ updater.pc = "done"
    /\ updater' = UpdaterIdle(updater.calls)
    /\ UNCHANGED <<overflow_checks, req, res, daemon, state, tuples, chunk_map, readers>>
    /\ Release({updater.old} \ {0})

\* DirectSuperBlockV6::destroy
Destroy ==
    /\ updater.pc = "idle"
    /\ updater.calls < MaxUpdates
    /\ tuples' = Append(tuples, DirectMappingState_new(RafsSuperMeta_default))
    /\ state' = Len(tuples) + 1
    /\ updater' = UpdaterIdle(updater.calls + 1)
    /\ UNCHANGED <<overflow_checks, req, res, daemon, chunk_map, readers>>
    /\ Release({state})

\* the tuple the k-th load of reader rd returned (the last one for a load
\* that the call did not make)
Snap(rd, k) == tuples[rd.snaps[IF k <= Len(rd.snaps) THEN k ELSE Len(rd.snaps)]]

\* a call other than get_chunk_info on handle h, its loads returning s1, s2, s3
HandleOp(call, h, s1, s2, s3) ==
    IF call.op = "size" THEN handle_size(h, s1)
    ELSE IF call.op = "get_attr" THEN get_attr(ConcInfo, h, s1)
    ELSE alloc_bio_vecs(ConcInfo, h, s1, s2, s3, {}, call.o, call.l, TRUE)

\* the tuples the loads of reader rd returned, in order
SnapsOf(rd) == [k \in 1..Len(rd.snaps) |-> tuples[rd.snaps[k]]]

\* does the call of reader rd load the state once more?  size and get_attr
\* load once; alloc_bio_vecs loads in state(), in the size() of
\* chunk_addresses and, when there are chunks, in the size() of the window;
\* get_chunk_info loads as LoadsBeforeLock says and, once it holds the lock
\* and finds no index, in load_chunk_map and the accessors of its rows
MoreLoads(rd) ==
    IF Len(rd.snaps) = 0 THEN TRUE
    ELSE IF rd.call.v.op \in {"size", "get_attr"} THEN FALSE
    ELSE IF rd.call.v.op = "alloc_bio_vecs"
    THEN IF Len(rd.snaps) = 1
         THEN /\ IsOk(handle_disk_inode(rd.h.v, Snap(rd, 1)))
              /\ handle_disk_inode(rd.h.v, Snap(rd, 1)).val.format \div 2
                    = EROFS_INODE_CHUNK_BASED
         ELSE /\ Len(rd.snaps) = 2
              /\ \E c \in {chunk_addresses(ConcInfo, rd.h.v, Snap(rd, 1), Snap(rd, 2),
                                            AsU32(WDivC(rd.call.v.o,
                                                        ConcInfo.chunk_size).q))} :
                    IsOk(c) /\ c.val.n > 0
    ELSE IF rd.pc = "run" THEN LoadsBeforeLock(rd.h.v, SnapsOf(rd))
    ELSE /\ chunk_map = None
         /\ load_chunk_map(SnapsOf(rd), rd.pre + 1).n > Len(rd.snaps) + 1

\* get_inode(nid 0): state.load() and inode_wrapper in one step; the handle
\* remembers (for the properties) the tuple it was created from
GetInode(r) ==
    /\ readers[r].pc = "none"
    /\ readers[r].ops < MaxOps
    /\ \E g \in {get_inode(ConcInfo, tuples[state], WZero)} :
          readers' = [readers EXCEPT ![r] =
                         IF IsOk(g)
                         THEN [ReaderNone(readers[r].ops + 1) EXCEPT
                                  !.pc = "idle", !.h = Some(g.val), !.born = state]
                         ELSE ReaderNone(readers[r].ops + 1)]
    /\ UNCHANGED <<overflow_checks, req, res, daemon, state, tuples, chunk_map, updater, released>>

\* the reader calls an operation of its handle
Begin(r) ==
    /\ readers[r].pc = "idle"
    /\ readers[r].ops < MaxOps
    /\ \E c \in Calls :
          readers' = [readers EXCEPT ![r].pc = "run", ![r].call = Some(c),
                                     ![r].snaps = <<>>, ![r].pre = 0,
                                     ![r].built = None, ![r].out = None,
                                     ![r].ops = readers[r].ops + 1]
    /\ UNCHANGED <<overflow_checks, req, res, daemon, state, tuples, chunk_map, updater, released>>

\* self.mapping.state.load() inside the running call
LoadState(r) ==
    /\ readers[r].pc \in {"run", "locked"}
    /\ MoreLoads(readers[r])
    /\ readers' = [readers EXCEPT ![r].snaps = Append(readers[r].snaps, state)]
    /\ UNCHANGED <<overflow_checks, req, res, daemon, state, tuples, chunk_map, updater, released>>

\* get_chunk_info: chunk_map.lock().unwrap(), reached when the part before
\* the lock gave the chunk address; the call waits while another holds the
\* lock.  On a poisoned Mutex unwrap panics and the lock is released again;
\* else the call holds the lock, with the index there or to be built
LockChunkMap(r) ==
    /\ readers[r].pc = "run"
    /\ readers[r].call.v.op = "get_chunk_info"
    /\ ~MoreLoads(readers[r])
    /\ IsOk(chunk_addr_ref(ConcInfo, readers[r].h.v, SnapsOf(readers[r]),
                          readers[r].call.v.idx).result)
    /\ \A o \in Readers : readers[o].pc \notin LockPcs
    /\ readers' = [readers EXCEPT
                      ![r].pc = IF IsPoisoned(chunk_map) THEN "unlocked"
                                ELSE IF chunk_map.some THEN "have" ELSE "locked",
                      ![r].pre = Len(readers[r].snaps),
                      ![r].out = IF IsPoisoned(chunk_map)
                                 THEN Some([result |-> Panic("chunk_map.lock(): unwrap on PoisonError"),
                                            used |-> None])
                                 ELSE None]
    /\ UNCHANGED <<overflow_checks, req, res, daemon, state, tuples, chunk_map, updater, released>>

\* load_chunk_map returns to get_chunk_info, or unwinds: the guard of its
\* load is dropped; the lock is still held and info.chunk_map is as it was
LoadChunkMapReturn(r) ==
    /\ readers[r].pc = "locked"
    /\ ~MoreLoads(readers[r])
    /\ readers' = [readers EXCEPT
                      ![r].pc = "built",
                      ![r].built = Some(load_chunk_map(SnapsOf(readers[r]),
                                                      readers[r].pre + 1).result)]
    /\ UNCHANGED <<overflow_checks, req, res, daemon, state, tuples, chunk_map, updater>>
    /\ Release({readers[r].snaps[readers[r].pre + 1]})

\* *chunk_map = Some(..), after load_chunk_map returned Ok
StoreChunkMap(r) ==
    /\ readers[r].pc = "built"
    /\ IsOk(readers[r].built.v)
    /\ chunk_map' = Some([map |-> readers[r].built.v.val,
                          built_from |-> readers[r].snaps[readers[r].pre + 1]])
    /\ readers' = [readers EXCEPT ![r].pc = "have"]
    /\ UNCHANGED <<overflow_checks, req, res, daemon, state, tuples, updater, released>>

\* load_chunk_map returned Err, or panicked: get_chunk_info leaves through ?
\* or unwinds, and the MutexGuard is dropped: the Mutex is released, and
\* poisoned by a panic; the guard of state() is not dropped yet
FailChunkMap(r) ==
    /\ readers[r].pc = "built"
    /\ ~IsOk(readers[r].built.v)
    /\ chunk_map' = IF IsPanic(readers[r].built.v) THEN Poisoned(chunk_map)
                    ELSE chunk_map
    /\ readers' = [readers EXCEPT
                      ![r].pc = "unlocked",
                      ![r].out = Some([result |-> readers[r].built.v, used |-> None])]
    /\ UNCHANGED <<overflow_checks, req, res, daemon, state, tuples, updater, released>>

\* the lookup in the index under the lock, on the tuple of the call's first
\* load, and the drop of the MutexGuard: the Mutex is released, and poisoned
\* when the lookup panicked; the guard of state() is not dropped yet
LookupChunk(r) ==
    /\ readers[r].pc = "have"
    /\ \E g \in {chunk_info_of(Snap(readers[r], 1), chunk_map.v.map,
                                chunk_addr_ref(ConcInfo, readers[r].h.v,
                                               SnapsOf(readers[r]),
                                               readers[r].call.v.idx).result.val)} :
          /\ chunk_map' = IF IsPanic(g) THEN Poisoned(chunk_map) ELSE chunk_map
          /\ readers' = [readers EXCEPT
                            ![r].pc = "unlocked",
                            ![r].out = Some([result |-> g,
                                             used |-> Some(chunk_map.v.built_from)])]
    /\ UNCHANGED <<overflow_checks, req, res, daemon, state, tuples, updater, released>>

\* the rest of a running call that takes no lock, which reads only the
\* tuples it loaded, and the return (or the unwinding) of the call, which
\* drops the guard of its first load.  get_chunk_info ends here from before
\* the lock when the part before the lock failed, and else after it has
\* released the lock
Finish(r) ==
    /\ readers[r].pc \in {"run", "unlocked"}
    /\ readers[r].pc = "run" => ~MoreLoads(readers[r])
    /\ (readers[r].pc = "run" /\ readers[r].call.v.op = "get_chunk_info")
          => ~IsOk(chunk_addr_ref(ConcInfo, readers[r].h.v, SnapsOf(readers[r]),
                                  readers[r].call.v.idx).result)
    /\ readers' = [readers EXCEPT
                      ![r].pc = "idle",
                      ![r].out =
                          IF readers[r].pc = "unlocked" THEN readers[r].out
                          ELSE IF readers[r].call.v.op = "get_chunk_info"
                          THEN Some([result |-> chunk_addr_ref(ConcInfo, readers[r].h.v,
                                                               SnapsOf(readers[r]),
                                                               readers[r].call.v.idx).result,
                                     used |-> None])
                          ELSE Some([result |-> HandleOp(readers[r].call.v,
                                                         readers[r].h.v,
                                                         Snap(readers[r], 1),
                                                         Snap(readers[r], 2),
                                                         Snap(readers[r], 3)),
                                     used |-> None])]
    /\ UNCHANGED <<overflow_checks, req, res, daemon, state, tuples, chunk_map, updater>>
    /\ Release({readers[r].snaps[1]})

\* the reader drops its handle
Drop(r) ==
    /\ readers[r].pc = "idle"
    /\ readers' = [readers EXCEPT ![r] = ReaderNone(readers[r].ops)]
    /\ UNCHANGED <<overflow_checks, req, res, daemon, state, tuples, chunk_map, updater, released>>

Next ==
    \/ UpdateOpen
    \/ UpdateValidate
    \/ UpdateParse
    \/ UpdateMap
    \/ UpdateStore
    \/ UpdateReturn
    \/ Destroy
    \/ \E r \in Readers : GetInode(r)
    \/ \E r \in Readers : Begin(r)
    \/ \E r \in Readers : LoadState(r)
    \/ \E r \in Readers : LockChunkMap(r)
    \/ \E r \in Readers : LoadChunkMapReturn(r)
    \/ \E r \in Readers : StoreChunkMap(r)
    \/ \E r \in Readers : FailChunkMap(r)
    \/ \E r \in Readers : LookupChunk(r)
    \/ \E r \in Readers : Finish(r)
    \/ \E r \in Readers : Drop(r)

Spec == Init /\ [][Next]_vars

-----------------------------------------------------------------------------
(* Properties of the hot swap, stated on Spec.                               *)

\* every tuple was published by new() or by load/update, none by destroy
OnlyUpdates == \A i \in 1..Len(tuples) : tuples[i].meta = ConcMeta

\* C1 (hot-swap isolation): every call on a handle returns what the call
\* returns on the tuple the handle was created from, whatever load/update
\* has published since.
HotSwapIsolation ==
    \A r \in Readers :
        (OnlyUpdates /\ readers[r].out.some
            /\ readers[r].call.v.op # "get_chunk_info") =>
            readers[r].out.v.result
                = HandleOp(readers[r].call.v, readers[r].h.v, tuples[readers[r].born],
                           tuples[readers[r].born], tuples[readers[r].born])

\* C2 (single snapshot per operation): all the loads of the state made by
\* one call of a handle return the same tuple, whatever load/update
\* publishes meanwhile.
SingleSnapshot ==
    \A r \in Readers :
        OnlyUpdates =>
            \A i, j \in 1..Len(readers[r].snaps) :
                readers[r].snaps[i] = readers[r].snaps[j]

\* no tuple once built is changed
TuplesKept == \A i \in 1..Len(tuples) : i <= Len(tuples') /\ tuples'[i] = tuples[i]

\* a step that publishes a tuple is destroy, or the last step of a
\* load/update whose validation, parse and mapping succeeded, and it
\* publishes the one new tuple
PublishStep ==
    /\ TuplesKept
    /\ (state' # state \/ tuples' # tuples) =>
          /\ Len(tuples') = Len(tuples) + 1
          /\ state' = Len(tuples')
          /\ \/ updater.pc = "idle" /\ updater'.pc = "idle"
             \/ /\ updater.pc = "mapped"
                /\ updater'.pc = "done"
                /\ updater'.result = Some(Ok(TRUE))
                /\ updater.stores = 0

\* a load/update that has ended stored once if it returned Ok, and else it
\* returned an error and did not store: the tuple published when it began is
\* still the published one
CallOutcome ==
    updater.pc = "done" =>
        IF updater.result = Some(Ok(TRUE))
        THEN updater.stores = 1 /\ state = Len(tuples)
        ELSE /\ IsErr(updater.result.v)
             /\ updater.stores = 0
             /\ state = updater.was

\* C9 (atomic publication): load/update stores a new tuple exactly once and
\* only after the range validation, the blob table parse and the mapping have
\* succeeded; a call in which a step fails returns an error and leaves the
\* published tuple current and unchanged.
AtomicPublication == [][PublishStep]_vars /\ []CallOutcome

\* C10 (lazy chunk index follows the state tuple): when get_chunk_info
\* consults the index, the index was built from the tuple the call resolves
\* the chunk against.
IndexFollowsState ==
    \A r \in Readers :
        (OnlyUpdates /\ readers[r].out.some /\ readers[r].out.v.used.some) =>
            readers[r].out.v.used.v = readers[r].snaps[1]

-----------------------------------------------------------------------------
(* SpecHandle: one call on the handle of nid 0 of a small image made for the *)
(* call, one call per behaviour.                                             *)

\* OndiskInodeWrapper::validate: the load n of ld is its self.state(); then
\* is_reg() loads, and size() for a regular file; for another handle
\* is_dir() loads, and get_child_count for a directory; for another handle
\* is_symlink() loads, and size() for a symlink
validate(info, h, ld, n) ==
    Bind(Load(ld, n), LAMBDA st :
    Try(handle_disk_inode(h, st), LAMBDA inode :
        IF WLt(get_max_ino, ino(info, h)) \/ inode.nlink = WZero THEN Err("BadFd")
        ELSE IF ~h.name.some THEN Panic("name: assert!(self.name.is_some())")
        ELSE IF Len(h.name.v) % LIMB > RAFS_MAX_NAME + 1 THEN Err("BadFd")
        ELSE
    Try(handle_disk_inode(h, Load(ld, n + 1)), LAMBDA reg :
        IF is_reg(reg)
        THEN IF st.meta.is_chunk_dict THEN Err("OpNotSupp")
             ELSE Try(handle_size(h, Load(ld, n + 2)), LAMBDA sz :
                  Chk(WMulC(div_round_up(sz, info.chunk_size), SizeOfChunkAddr),
                      "validate: chunks * 8", LAMBDA m :
                  Chk(WAdd(W(inode_xattr_size(inode)), m),
                      "validate: inode_xattr_size + chunks * 8", LAMBDA size :
                      IF ~WSmall(size) THEN Err("InvalidData")
                      ELSE validate_range(st.map, h.offset, WInt(size)))))
        ELSE
    Try(handle_disk_inode(h, Load(ld, n + 2)), LAMBDA dir :
        IF is_dir(dir)
        THEN Try(get_child_count(info, h, ld, n + 3), LAMBDA c :
                 IF ~WLt(c, get_max_ino) THEN Err("Invalid")
                 ELSE validate_range(st.map, h.offset,
                                     inode_size(inode) + xattr_size(inode)))
        ELSE
    Try(handle_disk_inode(h, Load(ld, n + 3)), LAMBDA lnk :
        IF is_symlink(lnk)
        THEN Try(handle_size(h, Load(ld, n + 4)), LAMBDA sz :
                 IF sz = WZero THEN Err("Invalid") ELSE Ok(TRUE))
        ELSE Ok(TRUE))))))

RECURSIVE child_by_index_entries(_, _, _, _, _, _, _, _)
\* the two nested loops of get_child_by_index, from entry s.j of block s.i;
\* s.n is the number of the next load
child_by_index_entries(info, h, st, ld, inode, blocks_count, idx, s) ==
    IF s.j < s.entries_count
    THEN Try(MapErr(get_entry(h, st, inode, W(s.i), W(s.j)), "InvalidData"), LAMBDA de :
         TryN(MapErr(entry_name(h, st, ld, s.n, inode, W(s.i), W(s.j),
                                W(s.entries_count)),
                     "InvalidData"), LAMBDA name, n1 :
             IF name = DOT \/ name = DOTDOT
             THEN child_by_index_entries(info, h, st, ld, inode, blocks_count, idx,
                                         [s EXCEPT !.j = s.j + 1, !.n = n1])
             ELSE IF W(s.cur_idx) = idx
             THEN inode_wrapper_with_info(info, st, de.e_nid, ino(info, h), name)
             ELSE child_by_index_entries(info, h, st, ld, inode, blocks_count, idx,
                                         [s EXCEPT !.j = s.j + 1,
                                                   !.cur_idx = s.cur_idx + 1,
                                                   !.n = n1])))
    ELSE IF WLt(W(s.i + 1), blocks_count)
    THEN Bind(get_entry(h, st, inode, W(s.i + 1), WZero), LAMBDA head_entry :
            IF IsErr(head_entry) THEN Panic("get_child_by_index: unwrap on Err")
            ELSE IF ~IsOk(head_entry) THEN head_entry
            ELSE child_by_index_entries(info, h, st, ld, inode, blocks_count, idx,
                     [s EXCEPT !.i = s.i + 1, !.j = 0,
                               !.entries_count =
                                   head_entry.val.e_nameoff \div SizeOfDirent]))
    ELSE Err("NotFound")

\* OndiskInodeWrapper::get_child_by_index(idx): the load n of ld is its
\* self.state(), the next is_dir(), and those of entry_name follow
get_child_by_index(info, h, ld, n, idx) ==
    Bind(Load(ld, n), LAMBDA st :
    Try(handle_disk_inode(h, st), LAMBDA inode :
    Try(handle_disk_inode(h, Load(ld, n + 1)), LAMBDA kind :
        IF ~is_dir(kind) THEN Err("Invalid")
        ELSE child_by_index_entries(info, h, st, ld, inode,
                                    div_round_up(inode.size, EROFS_BLOCK_SIZE), idx,
                                    [i |-> -1, j |-> 0, entries_count |-> 0,
                                     cur_idx |-> 0, n |-> n + 2]))))

\* what collect_descendants_inodes leaves: its result, the descendants
\* vector (the nids pushed, in order) and the number of the next load
Collected(result, descendants, n) ==
    [result |-> result, descendants |-> descendants, n |-> n]

RECURSIVE collect_child_dirs(_, _, _, _, _, _)
RECURSIVE collect_descendants_inodes(_, _, _, _, _, _)

\* `for d in child_dirs { d.collect_descendants_inodes(descendants)?; }` and
\* the Ok(0) after it
collect_child_dirs(info, ld, n, child_dirs, descendants, stack) ==
    IF child_dirs = <<>> THEN Collected(Ok(0), descendants, n)
    ELSE Bind(collect_descendants_inodes(info, Head(child_dirs), ld, n, descendants,
                                         stack), LAMBDA d :
            IF ~IsOk(d.result) THEN d
            ELSE collect_child_dirs(info, ld, d.n, Tail(child_dirs), d.descendants,
                                    stack))

\* OndiskInodeWrapper::collect_descendants_inodes(descendants): the load n
\* of ld is is_dir(), then come the loads of the walk, those of the callback
\* among them.  The recursion has no bound of its own.  stack holds the
\* handles of the enclosing calls that began when every later load returns
\* the last tuple of ld: a call on one of them repeats the enclosing call,
\* nested without end, until the stack of the thread overflows
collect_descendants_inodes(info, h, ld, n, descendants, stack) ==
    IF n >= Len(ld) /\ h \in stack
    THEN Collected(Abort("stack overflow"), descendants, n)
    ELSE
    Bind(handle_disk_inode(h, Load(ld, n)), LAMBDA kind :
        IF ~IsOk(kind) THEN Collected(kind, descendants, n + 1)
        ELSE IF ~is_dir(kind.val) THEN Collected(Err("NotDir"), descendants, n + 1)
        ELSE
    Bind(walk_children_inodes(info, h, ld, n + 1, 0,
                              [kind |-> "collect", child_dirs |-> <<>>,
                               descendants |-> descendants]), LAMBDA w :
        IF ~IsOk(w.result) THEN Collected(w.result, w.hs.descendants, w.n)
        ELSE collect_child_dirs(info, ld, w.n, w.hs.child_dirs, w.hs.descendants,
                                IF n >= Len(ld) THEN stack \cup {h} ELSE stack)))

\* the block of a directory that holds "." and ".." only
DotBlock == DirBlock(<<E(DOT, 0), E(DOTDOT, 0)>>)

\* the inodes: extended or compact, the layout field, reserved format bits,
\* the file type (regular, directory, symlink, fifo), nlink, the size
Inodes ==
    [ext : {0, 1}, layout : 0..7, rsv : {0, 16, 32768},
     mode : {S_IFREG, S_IFDIR, S_IFLNK, S_IFDIR \div 4}, nlink : {0, 1},
     size : {0, Len(DotBlock)}]

\* the format word of inode v
FormatOf(v) == v.ext + 2 * v.layout + v.rsv

\* the image of inode v: v at nid 0 with the directory block behind it (its
\* inline tail), and the directory block again as block 2 (its plain data)
HandleImage(v) ==
    [len |-> 3 * EROFS_BLOCK_SIZE,
     segs |-> <<[base |-> SlotBase(0),
                 data |-> (IF v.ext = 1
                           THEN ExtendedInode(FormatOf(v), 0, v.mode + 420, v.nlink,
                                              W(v.size), 2)
                           ELSE CompactInode(FormatOf(v), 0, v.mode + 420, v.nlink,
                                             v.size, 2))
                          \o DotBlock],
                [base |-> 2 * EROFS_BLOCK_SIZE, data |-> DotBlock]>>]

HandleMeta == Meta(1, 0, 4096)
HandleInfo == DirectCachedInfo(HandleMeta)
HandleState(v) == [meta |-> HandleMeta, blob_table |-> <<>>, map |-> HandleImage(v)]

\* the cached names: none (a handle of get_inode), or a name of 1, 256 or 257
\* bytes (a handle of inode_wrapper_with_info)
HandleNames == {None} \cup {Some(LongName(97, n)) : n \in {1, 256, 257}}

\* the handle of nid 0 of the image of v with the cached name
HandleOf(v, name) ==
    IF name.some
    THEN inode_wrapper_with_info(HandleInfo, HandleState(v), WZero, WZero, name.v).val
    ELSE get_inode(HandleInfo, HandleState(v), WZero).val

(* Xattr reader.  The inline xattr body follows the inode: a header, then    *)
(* records of a 4-byte RafsV6XattrEntry, the name suffix and the value,      *)
(* padded to 4 bytes.                                                        *)

\* RafsV6XattrEntry at off
XattrEntryAt(f, off) ==
    [name_len |-> ReadU8(f, off),
     name_index |-> ReadU8(f, off + 1),
     value_size |-> ReadU16(f, off + 2)]

\* the namespace prefixes by name index: "user.", "system.posix_acl_access",
\* "system.posix_acl_default", "trusted.", "security."
XattrPrefixes ==
    [i \in {1, 2, 3, 4, 6} |->
        CASE i = 1 -> <<117, 115, 101, 114, 46>>
          [] i = 2 -> <<115, 121, 115, 116, 101, 109, 46, 112, 111, 115, 105, 120, 95,
                        97, 99, 108, 95, 97, 99, 99, 101, 115, 115>>
          [] i = 3 -> <<115, 121, 115, 116, 101, 109, 46, 112, 111, 115, 105, 120, 95,
                        97, 99, 108, 95, 100, 101, 102, 97, 117, 108, 116>>
          [] i = 4 -> <<116, 114, 117, 115, 116, 101, 100, 46>>
          [] i = 6 -> <<115, 101, 99, 117, 114, 105, 116, 121, 46>>]

\* layout::v6::recover_namespace(index)
recover_namespace(index) ==
    IF index \in DOMAIN XattrPrefixes THEN Ok(XattrPrefixes[index]) ELSE Err("Invalid")

\* the end of an iteration of the `while remaining > 0` loops: s, remaining
\* and offset.  A remaining that wrapped below zero stays positive for as
\* long as the offset is inside a file (wrapped)
xattr_advance(e, it) ==
    Bind(round_up(e.name_len + e.value_size + SizeOfXattrEntry, SizeOfXattrEntry),
         LAMBDA sz :
        IF ~it.wrapped /\ sz > it.remaining /\ overflow_checks
        THEN Panic("xattr: remaining - s")
        ELSE Ok([offset |-> it.offset + sz,
                 remaining |-> IF it.wrapped \/ sz > it.remaining THEN 0
                               ELSE it.remaining - sz,
                 wrapped |-> it.wrapped \/ sz > it.remaining]))

RECURSIVE get_xattr_loop(_, _, _)
\* the `while remaining > 0` loop of get_xattr
get_xattr_loop(st, name, it) ==
    IF ~it.wrapped /\ it.remaining = 0 THEN Ok(None)
    ELSE
    Try(get_ref(st.map, W(it.offset), SizeOfXattrEntry), LAMBDA o :
    Bind(XattrEntryAt(st.map, o), LAMBDA e :
    Try(recover_namespace(e.name_index), LAMBDA ns :
    Try(get_slice(st.map, W(it.offset + SizeOfXattrEntry), W(e.name_len), 1),
        LAMBDA suffix :
        IF ns \o SliceBytes(st.map, suffix) = name
        THEN Try(get_slice(st.map, W(it.offset + SizeOfXattrEntry + e.name_len),
                           W(e.value_size), 1), LAMBDA data :
                 Ok(Some(SliceBytes(st.map, data))))
        ELSE Try(xattr_advance(e, it), LAMBDA nx : get_xattr_loop(st, name, nx))))))

\* the start of both loops: offset and remaining
xattr_start(h, inode) ==
    [offset |-> h.offset + inode_size(inode) + SizeOfXattrIbodyHeader,
     remaining |-> (inode.xattr_inline_count - 1) * SizeOfXattrEntry,
     wrapped |-> FALSE]

\* OndiskInodeWrapper::get_xattr(name)
get_xattr(h, st, name) ==
    Try(handle_disk_inode(h, st), LAMBDA inode :
        IF inode.xattr_inline_count = 0 THEN Ok(None)
        ELSE get_xattr_loop(st, name, xattr_start(h, inode)))

RECURSIVE get_xattrs_loop(_, _, _)
\* the `while remaining > 0` loop of get_xattrs; xattrs is the vector so far
get_xattrs_loop(st, xattrs, it) ==
    IF ~it.wrapped /\ it.remaining = 0 THEN Ok(xattrs)
    ELSE
    Try(get_ref(st.map, W(it.offset), SizeOfXattrEntry), LAMBDA o :
    Bind(XattrEntryAt(st.map, o), LAMBDA e :
    Try(get_slice(st.map, W(it.offset + SizeOfXattrEntry), W(e.name_len), 1),
        LAMBDA name :
    Try(recover_namespace(e.name_index), LAMBDA ns :
        Try(xattr_advance(e, it), LAMBDA nx :
            get_xattrs_loop(st, Append(xattrs, ns \o SliceBytes(st.map, name)), nx))))))

\* OndiskInodeWrapper::get_xattrs
get_xattrs(h, st) ==
    Try(handle_disk_inode(h, st), LAMBDA inode :
        IF inode.xattr_inline_count = 0 THEN Ok(<<>>)
        ELSE get_xattrs_loop(st, <<>>, xattr_start(h, inode)))

(* The xattr images: a compact regular file at nid 0 with an inline xattr    *)
(* body made of up to MaxXattrs records.                                     *)

MaxXattrs == 2

\* the records: name index (user., trusted., or the unknown index 5), name
\* suffix ("a", "ab"), value
XattrRecords ==
    [index : {1, 4, 5}, suffix : {<<97>>, <<97, 98>>},
     value : {<<>>, <<1, 2, 3, 4, 5, 6, 7, 8>>}]

XattrBodies == UNION {[1..n -> XattrRecords] : n \in 0..MaxXattrs}

\* the bytes of a record, padded to the entry alignment
XattrRecord(x) ==
    <<Len(x.suffix), x.index>> \o LE16(Len(x.value)) \o x.suffix \o x.value
        \o Zeros(round_up(Len(x.suffix) + Len(x.value), SizeOfXattrEntry)
                   - Len(x.suffix) - Len(x.value))

\* the bytes of the records of body b
XattrBytes(b) == Concat([k \in 1..Len(b) |-> XattrRecord(b[k])], 1)

\* the xattr_inline_count that covers the records of b exactly
XattrCount(b) == 1 + Len(XattrBytes(b)) \div SizeOfXattrEntry

\* the image of an xattr request x: the inode carries x.count, the file ends
\* x.cut bytes before the end of the records (x.cut < 0: two blocks later)
XattrImage(x) ==
    [len |-> IF x.cut < 0 THEN 3 * EROFS_BLOCK_SIZE
             ELSE SlotBase(0) + SizeOfInodeCompact + SizeOfXattrIbodyHeader
                    + Len(XattrBytes(x.body)) - x.cut,
     segs |-> <<[base |-> SlotBase(0),
                 data |-> CompactInode(2 * EROFS_INODE_CHUNK_BASED, x.count,
                                       S_IFREG + 420, 1, 0, 0)
                          \o Zeros(SizeOfXattrIbodyHeader) \o XattrBytes(x.body)]>>]

XattrState(x) == [meta |-> HandleMeta, blob_table |-> <<>>, map |-> XattrImage(x)]

\* the full names asked for: "user.a", "user.ab", "trusted.a", "trusted.ab",
\* "user.zz"
XattrNames ==
    {XattrPrefixes[i] \o sfx : i \in {1, 4}, sfx \in {<<97>>, <<97, 98>>}}
    \cup {XattrPrefixes[1] \o <<122, 122>>}

\* xattr_inline_count is exact, one entry short, one entry long, or 0; the
\* file ends after the records, four bytes early (its length is then a
\* multiple of 8, as update_state wants it), or two blocks later
XattrRequests ==
    {[op |-> "xattr", body |-> b, count |-> c, cut |-> cut, name |-> n] :
        b \in XattrBodies, c \in 0..(2 + 4 * MaxXattrs),
        cut \in {-1, 0, 4}, n \in XattrNames}
    \ {x \in [op : {"xattr"}, body : XattrBodies, count : 0..(2 + 4 * MaxXattrs),
              cut : {-1, 0, 4}, name : XattrNames] :
           x.count # 0 /\ (x.count < XattrCount(x.body) - 1
                             \/ x.count > XattrCount(x.body) + 1)}

\* the directory operations, called on a handle of get_inode
DirOps == {"walk_children_inodes", "get_child_by_name", "get_child_by_index",
           "collect_descendants_inodes"}

\* the handles get_child_count is called on: nid 0 of the image of an inode
\* of Inodes, a directory of the directory image, a file of the images of
\* regular files
CountRequests ==
    {[op |-> "get_child_count", img |-> "inode", inode |-> v] : v \in Inodes}
    \cup {[op |-> "get_child_count", img |-> "dir", dir |-> d] : d \in 1..Len(Dirs)}
    \cup {[op |-> "get_child_count", img |-> "file", cs |-> cs, file |-> f] :
             cs \in ChunkSizes, f \in 1..BigFile}

\* the inodes whose data blocks are resolved: sizes of 0, 1, 1 and 3 blocks
BlockInodes ==
    [ext : {0, 1}, layout : 0..7, rsv : {0, 16, 32768}, mode : {S_IFDIR}, nlink : {1},
     size : {0, Len(DotBlock), EROFS_BLOCK_SIZE, 2 * EROFS_BLOCK_SIZE + 5}]

BlockRequests ==
    {[op |-> "data_block_offset", inode |-> v, k |-> k] : v \in BlockInodes, k \in 0..2}

HandleRequests ==
    {[op |-> "validate", inode |-> v, name |-> n] : v \in Inodes, n \in HandleNames}
    \cup BlockRequests
    \cup {[op |-> o, inode |-> v, name |-> None] : o \in DirOps, v \in Inodes}
    \cup XattrRequests
    \cup CountRequests

HandleInit ==
    /\ overflow_checks \in BOOLEAN
    /\ req \in HandleRequests
    /\ res = None
    /\ ConcIdle

\* validate() on the handle
DoValidate ==
    /\ res = None
    /\ req.op = "validate"
    /\ res' = Some(validate(HandleInfo, HandleOf(req.inode, req.name),
                            <<HandleState(req.inode)>>, 1))
    /\ UNCHANGED <<overflow_checks, req, concVars>>

\* walk_children_inodes(0, handler) with a handler that never breaks
DoWalkChildren ==
    /\ res = None
    /\ req.op = "walk_children_inodes"
    /\ \E w \in {walk_children_inodes(HandleInfo, HandleOf(req.inode, req.name),
                                       <<HandleState(req.inode)>>, 1, 0, Policy(0))} :
          res' = Some([result |-> w.result, emitted |-> w.emitted])
    /\ UNCHANGED <<overflow_checks, req, concVars>>

\* get_child_by_name(".")
DoChildByName ==
    /\ res = None
    /\ req.op = "get_child_by_name"
    /\ \E g \in {get_child_by_name(HandleInfo, HandleOf(req.inode, req.name),
                                    <<HandleState(req.inode)>>, 1, DOT)} :
          res' = Some([result |-> IF IsOk(g) THEN Ok(g.val) ELSE g, emitted |-> <<>>])
    /\ UNCHANGED <<overflow_checks, req, concVars>>

\* get_child_by_index(0)
DoChildByIndex ==
    /\ res = None
    /\ req.op = "get_child_by_index"
    /\ res' = Some([result |-> get_child_by_index(HandleInfo,
                                                  HandleOf(req.inode, req.name),
                                                  <<HandleState(req.inode)>>, 1,
                                                  WZero),
                    emitted |-> <<>>])
    /\ UNCHANGED <<overflow_checks, req, concVars>>

\* collect_descendants_inodes on an empty vector
DoCollectDescendants ==
    /\ res = None
    /\ req.op = "collect_descendants_inodes"
    /\ \E d \in {collect_descendants_inodes(HandleInfo, HandleOf(req.inode, req.name),
                                            <<HandleState(req.inode)>>, 1, <<>>,
                                            {})} :
          res' = Some([result |-> d.result, emitted |-> d.descendants])
    /\ UNCHANGED <<overflow_checks, req, concVars>>

\* get_xattrs(), then get_xattr(name), on the handle of nid 0
DoXattr ==
    /\ res = None
    /\ req.op = "xattr"
    /\ \E h \in {get_inode(HandleInfo, XattrState(req), WZero).val} :
          res' = Some([list |-> get_xattrs(h, XattrState(req)),
                       get |-> get_xattr(h, XattrState(req), req.name)])
    /\ UNCHANGED <<overflow_checks, req, concVars>>

\* get_child_count() on the handle
DoGetChildCount ==
    /\ res = None
    /\ req.op = "get_child_count"
    /\ res' = Some(CASE req.img = "inode" ->
                         get_child_count(HandleInfo, HandleOf(req.inode, None),
                                         <<HandleState(req.inode)>>, 1)
                      [] req.img = "dir" ->
                         get_child_count(DirInfo, DirHandle(req.dir), <<DirState>>, 1)
                      [] req.img = "file" ->
                         get_child_count(RegInfos[req.cs],
                                         get_inode(RegInfos[req.cs], RegStates[req.cs],
                                                   W(FileNid(req.file))).val,
                                         <<RegStates[req.cs]>>, 1))
    /\ UNCHANGED <<overflow_checks, req, concVars>>

\* data_block_offset(inode, k) on the handle and its inode
DoDataBlockOffset ==
    /\ res = None
    /\ req.op = "data_block_offset"
    /\ res' = Some(Try(handle_disk_inode(HandleOf(req.inode, None), HandleState(req.inode)),
                       LAMBDA inode :
                           data_block_offset(HandleOf(req.inode, None), inode, W(req.k))))
    /\ UNCHANGED <<overflow_checks, req, concVars>>

HandleNext ==
    \/ DoGetChildCount
    \/ DoDataBlockOffset
    \/ DoXattr
    \/ DoValidate
    \/ DoWalkChildren
    \/ DoChildByName
    \/ DoChildByIndex
    \/ DoCollectDescendants

SpecHandle == HandleInit /\ [][HandleNext]_vars

\* the call of validate has returned
Validated == res.some /\ req.op = "validate"

\* the checks that C12 is about pass: nlink > 0, ino <= max_ino, and no cached
\* name longer than 256 bytes
ValidatePreconditions ==
    /\ req.inode.nlink # 0
    /\ ~WLt(get_max_ino, ino(HandleInfo, HandleOf(req.inode, req.name)))
    /\ req.name.some => Len(req.name.v) <= RAFS_MAX_NAME + 1

\* C12 (validate preconditions): validate fails when nlink is 0, when ino
\* exceeds max_ino or when the cached name is longer than 256 bytes; on a
\* handle without a cached name the name check does not apply and validate
\* returns Ok or an error, it does not abort.
ValidateChecks ==
    Validated =>
        /\ ~ValidatePreconditions => IsErr(res.v)
        /\ ~req.name.some => (IsOk(res.v) \/ IsErr(res.v))

\* the format word has no reserved bit and its layout is plain, inline or
\* chunk-based
FormatWhitelisted(format) ==
    /\ format \div 16 = 0
    /\ (format \div 2) % 8 \in {EROFS_INODE_FLAT_PLAIN, EROFS_INODE_FLAT_INLINE,
                               EROFS_INODE_CHUNK_BASED}

\* C13 (format whitelist): validate rejects every inode whose format word has
\* a reserved bit set or whose layout is not plain, inline or chunk-based; it
\* returns Ok only for inodes whose format passes the whitelist.
FormatWhitelist ==
    Validated =>
        /\ ~FormatWhitelisted(FormatOf(req.inode)) => IsErr(res.v)
        /\ IsOk(res.v) => FormatWhitelisted(FormatOf(req.inode))

\* C14 (wrong inode kind): walk_children, get_child_by_name,
\* get_child_by_index and collect_descendants_inodes on a handle whose inode
\* is not a directory return NotDirectory or InvalidArgument, read no
\* directory entry from the inode's data and hand nothing to the handler.
WrongInodeKind ==
    (res.some /\ req.op \in DirOps /\ req.inode.mode # S_IFDIR) =>
        /\ res.v.result \in {Err("NotDir"), Err("Invalid")}
        /\ res.v.emitted = <<>>

\* the full name of record x
XattrFullName(x) == XattrPrefixes[x.index] \o x.suffix

\* the records of body b whose full name is name
XattrNamed(b, name) ==
    {k \in 1..Len(b) : b[k].index \in DOMAIN XattrPrefixes /\ XattrFullName(b[k]) = name}

\* C15 (xattr round-trip): when list_xattrs succeeds, get_xattr of a name it
\* returned gives the value bytes of the first record with that full name,
\* and get_xattr of a name it did not return reports the name as absent.
XattrRoundTrip ==
    (res.some /\ req.op = "xattr" /\ IsOk(res.v.list)) =>
        IF \E k \in 1..Len(res.v.list.val) : res.v.list.val[k] = req.name
        THEN /\ XattrNamed(req.body, req.name) # {}
             /\ res.v.get
                  = Ok(Some(req.body[CHOOSE k \in XattrNamed(req.body, req.name) :
                                        \A j \in XattrNamed(req.body, req.name) :
                                            k <= j].value))
        ELSE res.v.get = Ok(None)

\* C16 (nid/offset round-trip): for every nid for which get_inode succeeds,
\* ino() of the handle is that nid.
NidRoundTrip ==
    (res.some /\ req.op = "get_inode" /\ IsOk(res.v)) =>
        ino(DirInfo, res.v.val) = req.nid

\* the position in Dirs of the directory whose nid is n
DirOfNid(n) == CHOOSE d \in 1..Len(Dirs) : Dirs[d].nid = n

\* the entries named name of directory d
EntriesNamed(d, name) == {k \in 1..Len(EntriesOf(d)) : EntriesOf(d)[k].name = name}

\* the entries of directory d whose nid is n
EntriesTo(d, n) == {k \in 1..Len(EntriesOf(d)) : EntriesOf(d)[k].nid = n}

\* what get_extended_inode(n) is to return for the directory n that is not
\* the root: parent is the nid of its "..", name the name of the first entry
\* of that parent whose nid is n; an error when either is missing
ExtendedOf(n, r) ==
    LET dd == EntriesNamed(DirOfNid(n), DOTDOT)
        up == EntriesOf(DirOfNid(n))[CHOOSE k \in dd : TRUE].nid
        P == DirOfNid(up)
    IN  IF dd # {} /\ (\E d \in 1..Len(Dirs) : Dirs[d].nid = up) /\ EntriesTo(P, n) # {}
        THEN /\ IsOk(r)
             /\ r.val.parent_inode = Some(W(up))
             /\ r.val.name
                  = Some(EntriesOf(P)[CHOOSE k \in EntriesTo(P, n) :
                                         \A j \in EntriesTo(P, n) : k <= j].name)
        ELSE IsErr(r)

\* C17 (extended handle resolution): get_extended_inode(root) returns a
\* handle with parent() = root and name() = "/"; for every other directory it
\* returns a handle with the nid of the directory's ".." as parent() and the
\* name of the parent's entry for the directory as name(), and an error, not
\* an abort, when ".." or that entry cannot be found.
ExtendedResolution ==
    (res.some /\ req.op = "get_extended_inode"
        /\ \E d \in 1..Len(Dirs) : Dirs[d].nid = req.nid) =>
        IF req.nid = DirMeta.root_nid
        THEN /\ IsOk(res.v)
             /\ res.v.val.parent_inode = Some(W(req.nid))
             /\ res.v.val.name = Some(<<47>>)
        ELSE ExtendedOf(req.nid, res.v)

\* chunk k of the file is needed by the request: it is the chunk holding
\* byte o, for which a descriptor is always made, or a later chunk that
\* starts before the end of the window [o, o + min(S - o, L))
ChunkNeeded(k) ==
    /\ WLt(W(k * req.cs), FileSizeOf(req.cs, req.file))
    /\ WLe(WDivC(req.o, req.cs).q, W(k))
    /\ \/ WDivC(req.o, req.cs).q = W(k)
       \/ WLt(W(k * req.cs), WAdd(req.o, AllocWindow).v)

\* chunk k of the file cannot be resolved: its blob is not in the blob table
\* or the device has no chunk for it
ChunkUnresolved(k) ==
    \/ FileChunk(req.file, k).blob_index >= req.env.blobs
    \/ <<FileChunk(req.file, k).blob_index, FileChunk(req.file, k).id>> \in DeviceOf(req)

\* C18 (all-or-nothing chunk resolution): for a request with o <= S, when a
\* chunk needed to cover the window (the chunk of byte o included) cannot be
\* resolved the call returns Invalid and no vectors; chunks past the end of
\* the window are not resolved, so when every needed chunk can be resolved
\* the call does not fail Invalid.
AllOrNothing ==
    (AllocDone /\ WLe(req.o, FileSizeOf(req.cs, req.file))) =>
        IF \E k \in 0..MaxChunks : ChunkNeeded(k) /\ ChunkUnresolved(k)
        THEN res.v = Err("Invalid")
        ELSE res.v # Err("Invalid")

-----------------------------------------------------------------------------
(* Blob table placement, on Spec                                             *)

\* the call of load/update has ended (and not yet returned to its caller)
UpdateDone == updater.pc = "done" /\ updater.result.some

\* the blob table range of tuple t lies in [lo, hi)
BlobTableWithin(t, lo, hi) ==
    /\ lo <= t.meta.blob_table_offset
    /\ t.meta.blob_table_offset + t.meta.blob_table_size <= hi

\* C19 (blob table placement): after a successful load/update the blob table
\* range [blob_table_offset, blob_table_offset + blob_table_size) of the
\* published tuple lies in [4096, file_length - 4096); a call on a file whose
\* blob table starts before byte 4096 or reaches into the last 4096 bytes of
\* the file, or whose length is below 4096, ends with an error.
BlobTablePlacement ==
    UpdateDone =>
        LET len == Files[updater.file].len
            inside == BlobTableWithin(tuples[state], EROFS_BLOCK_SIZE,
                                      len - EROFS_BLOCK_SIZE)
        IN  /\ updater.result.v = Ok(TRUE) => inside
            /\ (len < EROFS_BLOCK_SIZE \/ ~inside) => IsErr(updater.result.v)

-----------------------------------------------------------------------------
(* SpecMode: RafsMode::from_str and Display for RafsMode, on strings as     *)
(* sequences of characters.                                                  *)

\* enum RafsMode
RafsMode == {"Direct", "Cached"}

\* the string literals of the two match arms
DirectText == <<"d", "i", "r", "e", "c", "t">>
CachedText == <<"c", "a", "c", "h", "e", "d">>

\* the upper-case letter of a lower-case letter of the two literals
Upper(c) ==
    CASE c = "d" -> "D" [] c = "i" -> "I" [] c = "r" -> "R" [] c = "e" -> "E"
      [] c = "c" -> "C" [] c = "t" -> "T" [] c = "a" -> "A" [] c = "h" -> "H"
      [] OTHER -> c

\* the lower-case letter of an upper-case letter
Lower(c) ==
    CASE c = "D" -> "d" [] c = "I" -> "i" [] c = "R" -> "r" [] c = "E" -> "e"
      [] c = "C" -> "c" [] c = "T" -> "t" [] c = "A" -> "a" [] c = "H" -> "h"
      [] OTHER -> c

\* from_str matching without regard to case (a faulty variant, against which
\* ModeParsing is tested)
from_str_caseless(s) ==
    IF [k \in 1..Len(s) |-> Lower(s[k])] = DirectText THEN Ok("Direct")
    ELSE IF [k \in 1..Len(s) |-> Lower(s[k])] = CachedText THEN Ok("Cached")
    ELSE Err("Invalid")

\* <RafsMode as FromStr>::from_str
from_str(s) ==
    IF s = DirectText THEN Ok("Direct")
    ELSE IF s = CachedText THEN Ok("Cached")
    ELSE Err("Invalid")

\* <RafsMode as Display>::fmt: the text written
fmt(m) == IF m = "Direct" THEN DirectText ELSE CachedText

\* the strings parsed: the prefixes of the two literals, the literals with
\* one letter in upper case, with the letters swapped in one place, with a
\* string appended, and the literals of the other spelling
Texts ==
    UNION {{SubSeq(t, 1, n) : n \in 0..Len(t)}
           \cup {[t EXCEPT ![k] = Upper(t[k])] : k \in 1..Len(t)}
           \cup {[t EXCEPT ![k] = t[Len(t) + 1 - k]] : k \in 1..Len(t)}
           \cup {t \o x : x \in {<<"e", "d">>, <<" ">>, <<"d">>, t}}
           \cup {SubSeq(t, 2, Len(t)), <<" ">> \o t,
                 [k \in 1..Len(t) |-> Upper(t[k])]} :
             t \in {DirectText, CachedText}}

ModeRequests ==
    {[op |-> "from_str", s |-> s] : s \in Texts}
    \cup {[op |-> "to_string", m |-> m] : m \in RafsMode}

ModeInit ==
    /\ overflow_checks \in BOOLEAN
    /\ req \in ModeRequests
    /\ res = None
    /\ ConcIdle

\* RafsMode::from_str(s)
DoFromStr ==
    /\ res = None
    /\ req.op = "from_str"
    /\ res' = Some(from_str(req.s))
    /\ UNCHANGED <<overflow_checks, req, concVars>>

\* format!("{}", m), then RafsMode::from_str of the text
DoToString ==
    /\ res = None
    /\ req.op = "to_string"
    /\ res' = Some([text |-> fmt(req.m), parsed |-> from_str(fmt(req.m))])
    /\ UNCHANGED <<overflow_checks, req, concVars>>

ModeNext == DoFromStr \/ DoToString

SpecMode == ModeInit /\ [][ModeNext]_vars

\* C20 (RafsMode parsing): from_str returns Direct for "direct", Cached for
\* "cached" and an error for every other string, upper-case spellings
\* included; parsing the text that Display writes for a mode gives that mode.
ModeParsing ==
    /\ (res.some /\ req.op = "from_str") =>
          /\ res.v = Ok("Direct") <=> req.s = <<"d", "i", "r", "e", "c", "t">>
          /\ res.v = Ok("Cached") <=> req.s = <<"c", "a", "c", "h", "e", "d">>
          /\ IsOk(res.v) => res.v.val \in RafsMode
          /\ ~IsOk(res.v) => IsErr(res.v)
    /\ (res.some /\ req.op = "to_string") => res.v.parsed = Ok(req.m)

\* the text of Cached has been written and parsed back
ModeParsingWitness ==
    /\ res.some
    /\ req.op = "to_string"
    /\ req.m = "Cached"
    /\ res.v.text = <<"c", "a", "c", "h", "e", "d">>
    /\ res.v.parsed = Ok("Cached")

-----------------------------------------------------------------------------
(* SpecFlags: the conversions between RafsSuperFlags and the compression    *)
(* and digest algorithms.  A value of RafsSuperFlags is its bits, a number. *)

COMPRESSION_NONE == 1
COMPRESSION_LZ4 == 2
HASH_BLAKE3 == 4
HASH_SHA256 == 8
EXPLICIT_UID_GID == 16
HAS_XATTR == 32
COMPRESSION_GZIP == 64
COMPRESSION_ZSTD == 128

\* the flags bitflags! declares
RafsSuperFlags ==
    {COMPRESSION_NONE, COMPRESSION_LZ4, HASH_BLAKE3, HASH_SHA256, EXPLICIT_UID_GID,
     HAS_XATTR, COMPRESSION_GZIP, COMPRESSION_ZSTD}

\* RafsSuperFlags::contains(f) for a flag f of one bit: x & f == f
contains(x, f) == (x \div f) % 2 = 1

\* impl From<RafsSuperFlags> for digest::Algorithm
digest_from(flags) ==
    IF contains(flags, HASH_BLAKE3) THEN "Blake3"
    ELSE IF contains(flags, HASH_SHA256) THEN "Sha256"
    ELSE "Blake3"

\* impl From<digest::Algorithm> for RafsSuperFlags
flags_from_digest(d) == IF d = "Blake3" THEN HASH_BLAKE3 ELSE HASH_SHA256

\* the compression algorithm taken with GZIP tested before LZ4 (a faulty
\* variant, against which FlagConversion is tested)
compress_from_gzip_first(flags) ==
    IF contains(flags, COMPRESSION_NONE) THEN "None"
    ELSE IF contains(flags, COMPRESSION_GZIP) THEN "GZip"
    ELSE IF contains(flags, COMPRESSION_LZ4) THEN "Lz4Block"
    ELSE IF contains(flags, COMPRESSION_ZSTD) THEN "Zstd"
    ELSE "Lz4Block"

\* impl From<RafsSuperFlags> for compress::Algorithm
compress_from(flags) ==
    IF contains(flags, COMPRESSION_NONE) THEN "None"
    ELSE IF contains(flags, COMPRESSION_LZ4) THEN "Lz4Block"
    ELSE IF contains(flags, COMPRESSION_GZIP) THEN "GZip"
    ELSE IF contains(flags, COMPRESSION_ZSTD) THEN "Zstd"
    ELSE "Lz4Block"

\* impl From<compress::Algorithm> for RafsSuperFlags
flags_from_compress(c) ==
    CASE c = "None" -> COMPRESSION_NONE
      [] c = "Lz4Block" -> COMPRESSION_LZ4
      [] c = "GZip" -> COMPRESSION_GZIP
      [] c = "Zstd" -> COMPRESSION_ZSTD

CompressAlgorithms == {"None", "Lz4Block", "GZip", "Zstd"}
DigestAlgorithms == {"Blake3", "Sha256"}

RECURSIVE SumOf(_)
SumOf(S) == IF S = {} THEN 0 ELSE LET f == CHOOSE f \in S : TRUE IN f + SumOf(S \ {f})

\* every set of the declared flags, and every algorithm
FlagRequests ==
    {[op |-> "algorithms", flags |-> SumOf(S)] : S \in SUBSET RafsSuperFlags}
    \cup {[op |-> "compress_flag", alg |-> c] : c \in CompressAlgorithms}
    \cup {[op |-> "digest_flag", alg |-> d] : d \in DigestAlgorithms}

FlagInit ==
    /\ overflow_checks \in BOOLEAN
    /\ req \in FlagRequests
    /\ res = None
    /\ ConcIdle

\* compress::Algorithm::from(flags) and digest::Algorithm::from(flags)
DoAlgorithms ==
    /\ res = None
    /\ req.op = "algorithms"
    /\ res' = Some([compressor |-> compress_from(req.flags),
                    digester |-> digest_from(req.flags)])
    /\ UNCHANGED <<overflow_checks, req, concVars>>

\* RafsSuperFlags::from(c), then compress::Algorithm::from of the flag
DoCompressFlag ==
    /\ res = None
    /\ req.op = "compress_flag"
    /\ res' = Some([flag |-> flags_from_compress(req.alg),
                    back |-> compress_from(flags_from_compress(req.alg))])
    /\ UNCHANGED <<overflow_checks, req, concVars>>

\* RafsSuperFlags::from(d), then digest::Algorithm::from of the flag
DoDigestFlag ==
    /\ res = None
    /\ req.op = "digest_flag"
    /\ res' = Some([flag |-> flags_from_digest(req.alg),
                    back |-> digest_from(flags_from_digest(req.alg))])
    /\ UNCHANGED <<overflow_checks, req, concVars>>

FlagNext == DoAlgorithms \/ DoCompressFlag \/ DoDigestFlag

SpecFlags == FlagInit /\ [][FlagNext]_vars

\* the flags set in a value
FlagsIn(x) == {f \in RafsSuperFlags : contains(x, f)}

\* the algorithm of the first flag of a priority list that is set, or dflt
ByPriority(set, prio, dflt) ==
    IF \A k \in 1..Len(prio) : prio[k].flag \notin set THEN dflt
    ELSE prio[CHOOSE k \in 1..Len(prio) :
                  /\ prio[k].flag \in set
                  /\ \A j \in 1..(k - 1) : prio[j].flag \notin set].alg

\* C21 (flag-to-algorithm conversion): for every set of flags the
\* compression algorithm is that of the first flag set among NONE, LZ4,
\* GZIP, ZSTD, Lz4Block when none is; the digest algorithm that of the first
\* among BLAKE3, SHA256, Blake3 when none is; an algorithm turned into its
\* flag and back is the same algorithm.
FlagConversion ==
    /\ (res.some /\ req.op = "algorithms") =>
          /\ res.v.compressor =
                ByPriority(FlagsIn(req.flags),
                           <<[flag |-> 1, alg |-> "None"], [flag |-> 2, alg |-> "Lz4Block"],
                             [flag |-> 64, alg |-> "GZip"], [flag |-> 128, alg |-> "Zstd"]>>,
                           "Lz4Block")
          /\ res.v.digester =
                ByPriority(FlagsIn(req.flags),
                           <<[flag |-> 4, alg |-> "Blake3"], [flag |-> 8, alg |-> "Sha256"]>>,
                           "Blake3")
    /\ (res.some /\ req.op \in {"compress_flag", "digest_flag"}) => res.v.back = req.alg

\* ZSTD and LZ4 are both set and Lz4Block is chosen, with both hash flags set
FlagConversionWitness ==
    /\ res.some
    /\ req.op = "algorithms"
    /\ FlagsIn(req.flags) = {COMPRESSION_LZ4, COMPRESSION_ZSTD, HASH_BLAKE3, HASH_SHA256}
    /\ res.v = [compressor |-> "Lz4Block", digester |-> "Blake3"]

-----------------------------------------------------------------------------
(* SpecIndex: threads calling get_chunk_info on handles of one superblock,  *)
(* interleaved at the lock of info.chunk_map and at the loads of the state  *)
(* inside the calls, while load/update publishes files.  Here `readers`     *)
(* holds the threads.                                                        *)

\* the meta given to new(): the blob table lies in the inode block, before
\* the chunk table, which has one row
IndexMeta ==
    [ConcMeta EXCEPT !.blob_table_offset = EROFS_BLOCK_SIZE + 2048,
                     !.chunk_table_size = SizeOfV5ChunkInfo]

\* the most calls of load/update in a behaviour of SpecIndex
MaxSwaps == 1

\* the most calls of get_chunk_info of each thread in a behaviour of SpecIndex
MaxCalls == 1

\* a bootstrap with the chunk table, and one that ends before the chunk
\* table (update_state validates only the blob table range)
IndexFiles ==
    <<Files[1], [Files[1] EXCEPT !.len = 2 * EROFS_BLOCK_SIZE, !.segs = <<Files[1].segs[1]>>]>>

Threads == {"t1", "t2"}

\* the chunk indexes asked: the first chunk of nid 0 and one past its last
IndexAsked == {W(0), W(2)}

\* the handle of nid 0
IndexHandle ==
    get_inode(DirectCachedInfo(IndexMeta),
              update_state_tuple(DirectMappingState_new(IndexMeta), <<>>, IndexFiles[1]),
              WZero).val

ThreadIdle(calls) ==
    [pc |-> "idle", calls |-> calls, idx |-> WZero, snaps |-> <<>>, pre |-> 0,
     built |-> None, out |-> None]

\* a call has ended at `stage` with result r, having consulted the map used
CallOut(stage, r, used) == Some([stage |-> stage, result |-> r, used |-> used])

\* thread rd after its call has ended with `out`: it returned, or it
\* panicked and is gone
Ended(rd, out) ==
    [ThreadIdle(rd.calls) EXCEPT !.pc = IF IsPanic(out.v.result) THEN "dead" ELSE "idle",
                                 !.out = out]

IndexInit ==
    /\ overflow_checks \in BOOLEAN
    /\ req = [op |-> "get_chunk_info"]
    /\ res = None
    /\ \E f \in 1..Len(IndexFiles) :
          tuples = <<update_state_tuple(DirectMappingState_new(IndexMeta),
                                        IndexFiles[f].blobs.val,
                                        IndexFiles[f])>>
    /\ state = 1
    /\ chunk_map = None
    /\ readers = [t \in Threads |-> ThreadIdle(0)]
    /\ updater = UpdaterIdle(0)
    /\ released = {}
    /\ daemon = None

\* does a thread hold the lock of info.chunk_map?
LockHeld == \E t \in Threads : readers[t].pc \in LockPcs

\* update_state on one of the files, from clone_file to the validation of
\* the blob table range: self.state.load() gives old_state, which the call
\* keeps until it returns.  In SpecIndex the system calls on the file
\* succeed (Spec has their failures)
IndexUpdateValidate ==
    /\ updater.pc = "idle"
    /\ updater.calls < MaxSwaps
    /\ \E f \in 1..Len(IndexFiles) :
          \E r \in {update_state_validate(W(IndexFiles[f].len), tuples[state])} :
             updater' = [UpdaterIdle(updater.calls + 1) EXCEPT
                             !.pc = IF IsOk(r) THEN "validated" ELSE "done",
                             !.file = f,
                             !.old = IF IsOk(r) THEN state ELSE 0,
                             !.result = IF IsOk(r) THEN None ELSE Some(r),
                             !.was = state]
    /\ UNCHANGED <<overflow_checks, req, res, daemon, state, tuples, chunk_map, readers,
                   released>>

\* update_state from the parse of the blob table, whose error ends the call,
\* to self.state.store(Arc::new(state)): the ArcSwap gives up the tuple it
\* held, which is dropped unless a guard is left on it
IndexUpdateStore ==
    /\ updater.pc = "validated"
    /\ IF IsOk(IndexFiles[updater.file].blobs)
       THEN /\ tuples' = Append(tuples,
                                update_state_tuple(tuples[updater.old],
                                                   IndexFiles[updater.file].blobs.val,
                                                   IndexFiles[updater.file]))
            /\ state' = Len(tuples) + 1
            /\ updater' = [updater EXCEPT !.pc = "done", !.result = Some(Ok(TRUE)),
                                          !.stores = updater.stores + 1]
       ELSE /\ updater' = [updater EXCEPT !.pc = "done",
                                          !.result = Some(IndexFiles[updater.file].blobs)]
            /\ UNCHANGED <<state, tuples>>
    /\ UNCHANGED <<overflow_checks, req, res, daemon, chunk_map, readers>>
    /\ Release({state})

\* the part of the call of thread rd before the lock
IndexAddr(rd) ==
    chunk_addr_ref(DirectCachedInfo(IndexMeta), IndexHandle, SnapsOf(rd), rd.idx).result

\* does the call of thread rd load the state once more?  Before the lock as
\* LoadsBeforeLock says; with the lock, while it builds the index, in
\* load_chunk_map and the accessors of its rows
IndexMoreLoads(rd) ==
    IF rd.pc = "run" THEN LoadsBeforeLock(IndexHandle, SnapsOf(rd))
    ELSE load_chunk_map(SnapsOf(rd), rd.pre + 1).n > Len(rd.snaps) + 1

\* a thread calls get_chunk_info(idx)
IndexCall(t) ==
    /\ readers[t].pc = "idle"
    /\ readers[t].calls < MaxCalls
    /\ \E idx \in IndexAsked :
          readers' = [readers EXCEPT ![t] =
                         [ThreadIdle(readers[t].calls + 1) EXCEPT
                             !.pc = "run", !.idx = idx]]
    /\ UNCHANGED <<overflow_checks, req, res, daemon, state, tuples, chunk_map, updater, released>>

\* self.mapping.state.load() inside the call: one of state(), is_reg(),
\* get_chunk_count() before the lock, or of load_chunk_map and the accessors
\* of its rows under the lock
IndexLoad(t) ==
    /\ readers[t].pc \in {"run", "locked"}
    /\ IndexMoreLoads(readers[t])
    /\ readers' = [readers EXCEPT ![t].snaps = Append(readers[t].snaps, state)]
    /\ UNCHANGED <<overflow_checks, req, res, daemon, state, tuples, chunk_map, updater, released>>

\* the call returns before the lock: no regular file, idx not below the
\* chunk count, or no chunk address inside the file; the return drops the
\* guard of state()
IndexBefore(t) ==
    /\ readers[t].pc = "run"
    /\ ~IndexMoreLoads(readers[t])
    /\ ~IsOk(IndexAddr(readers[t]))
    /\ readers' = [readers EXCEPT
                      ![t] = Ended(readers[t],
                                   CallOut("before", IndexAddr(readers[t]), None))]
    /\ UNCHANGED <<overflow_checks, req, res, daemon, state, tuples, chunk_map, updater>>
    /\ Release({readers[t].snaps[1]})

\* where chunk_map.lock().unwrap() and the test chunk_map.is_none() lead
\* thread rd: on a poisoned Mutex unwrap panics and the lock is released
\* again, the guard of state() not yet dropped
Locked(rd) ==
    IF IsPoisoned(chunk_map)
    THEN [rd EXCEPT !.pc = "unlocked", !.pre = Len(rd.snaps),
                    !.out = CallOut("lock", Panic("chunk_map.lock(): unwrap on PoisonError"), None)]
    ELSE [rd EXCEPT !.pc = IF chunk_map.some THEN "have" ELSE "locked",
                    !.pre = Len(rd.snaps)]

\* chunk_map.lock().unwrap() and the test chunk_map.is_none(): the thread
\* waits while another holds the lock
IndexLock(t) ==
    /\ readers[t].pc = "run"
    /\ ~IndexMoreLoads(readers[t])
    /\ IsOk(IndexAddr(readers[t]))
    /\ ~LockHeld
    /\ readers' = [readers EXCEPT ![t] = Locked(readers[t])]
    /\ UNCHANGED <<overflow_checks, req, res, daemon, state, tuples, chunk_map, updater, released>>

\* load_chunk_map has made its loads and returns, or unwinds: the guard of
\* its load is dropped; the lock is still held and info.chunk_map is as it
\* was
IndexBuild(t) ==
    /\ readers[t].pc = "locked"
    /\ ~IndexMoreLoads(readers[t])
    /\ readers' = [readers EXCEPT
                      ![t].pc = "built",
                      ![t].built = Some(load_chunk_map(SnapsOf(readers[t]),
                                                      readers[t].pre + 1).result)]
    /\ UNCHANGED <<overflow_checks, req, res, daemon, state, tuples, chunk_map, updater>>
    /\ Release({readers[t].snaps[readers[t].pre + 1]})

\* *chunk_map = Some(..), after load_chunk_map returned Ok
IndexStore(t) ==
    /\ readers[t].pc = "built"
    /\ IsOk(readers[t].built.v)
    /\ chunk_map' = Some([map |-> readers[t].built.v.val,
                          built_from |-> readers[t].snaps[readers[t].pre + 1]])
    /\ readers' = [readers EXCEPT ![t].pc = "have"]
    /\ UNCHANGED <<overflow_checks, req, res, daemon, state, tuples, updater, released>>

\* load_chunk_map returned Err, or panicked: get_chunk_info leaves through ?
\* or unwinds, and the MutexGuard is dropped: the Mutex is released, and
\* poisoned by a panic; the guard of state() is not dropped yet
IndexFail(t) ==
    /\ readers[t].pc = "built"
    /\ ~IsOk(readers[t].built.v)
    /\ chunk_map' = IF IsPanic(readers[t].built.v) THEN Poisoned(chunk_map)
                    ELSE chunk_map
    /\ readers' = [readers EXCEPT
                      ![t].pc = "unlocked",
                      ![t].out = CallOut("build", readers[t].built.v, None)]
    /\ UNCHANGED <<overflow_checks, req, res, daemon, state, tuples, updater, released>>

\* the lookup in the map and DirectChunkInfoV6::new under the lock, and the
\* drop of the MutexGuard: the Mutex is released, and poisoned when the
\* lookup panicked; the guard of state() is not dropped yet
IndexLookup(t) ==
    /\ readers[t].pc = "have"
    /\ \E r \in {chunk_info_of(tuples[readers[t].snaps[1]], chunk_map.v.map,
                                IndexAddr(readers[t]).val)} :
          /\ readers' = [readers EXCEPT
                            ![t].pc = "unlocked",
                            ![t].out = CallOut("lookup", r, chunk_map)]
          /\ chunk_map' = IF IsPanic(r) THEN Poisoned(chunk_map) ELSE chunk_map
    /\ UNCHANGED <<overflow_checks, req, res, daemon, state, tuples, updater, released>>

\* the call returns, or its unwinding ends, after the lock was released: the
\* guard of state() is dropped
IndexReturn(t) ==
    /\ readers[t].pc = "unlocked"
    /\ readers' = [readers EXCEPT ![t] = Ended(readers[t], readers[t].out)]
    /\ UNCHANGED <<overflow_checks, req, res, daemon, state, tuples, chunk_map, updater>>
    /\ Release({readers[t].snaps[1]})

IndexNext ==
    \/ IndexUpdateValidate
    \/ IndexUpdateStore
    \/ UpdateReturn
    \/ \E t \in Threads : IndexCall(t)
    \/ \E t \in Threads : IndexLoad(t)
    \/ \E t \in Threads : IndexBefore(t)
    \/ \E t \in Threads : IndexLock(t)
    \/ \E t \in Threads : IndexBuild(t)
    \/ \E t \in Threads : IndexStore(t)
    \/ \E t \in Threads : IndexFail(t)
    \/ \E t \in Threads : IndexLookup(t)
    \/ \E t \in Threads : IndexReturn(t)

SpecIndex == IndexInit /\ [][IndexNext]_vars

\* the index once set stays what it is, and a build that ends without
\* setting it (load_chunk_map has failed) leaves it unset and the lock free
IndexStep ==
    /\ chunk_map.some => chunk_map' = chunk_map
    /\ \A t \in Threads :
          (readers[t].pc \in {"locked", "built"} /\ readers'[t].pc \notin LockPcs) =>
              /\ chunk_map' = None
              /\ ~LockHeld'

\* at most one thread is inside the lock, a thread scans the chunk table
\* only while the index is unset, every answer came from the index, and no
\* call is turned away at the lock
IndexShared ==
    /\ \A t, u \in Threads :
          (readers[t].pc \in LockPcs /\ readers[u].pc \in LockPcs) => t = u
    /\ \A t \in Threads :
          /\ readers[t].pc \in {"locked", "built"} => ~chunk_map.some
          /\ readers[t].pc = "have" => chunk_map.some
          /\ (readers[t].out.some /\ readers[t].out.v.stage = "lookup") =>
                readers[t].out.v.used = chunk_map
          /\ readers[t].out.some => readers[t].out.v.stage # "lock"

\* C22 (build-once lazy index): whatever the interleaving of the threads
\* calling get_chunk_info, at most one thread scans the chunk table while
\* the index is unset, every caller answers from the one map that was set,
\* the map once set is never replaced or changed, and a build that fails
\* leaves the index unset and the lock free, so that a later call builds it.
BuildOnce == [][IndexStep]_vars /\ []IndexShared

-----------------------------------------------------------------------------
(* Name lengths and child counts of directories, on SpecDir and SpecHandle   *)

\* the bytes of block b of directory d up to the end of the directory
\* content in that block: a whole block, but for the last block
BlockContent(d, b) ==
    IF b = Len(Dirs[d].blocks) THEN DirBlock(Dirs[d].blocks[b])
    ELSE DirBlock(Dirs[d].blocks[b])
            \o Zeros(EROFS_BLOCK_SIZE - Len(DirBlock(Dirs[d].blocks[b])))

\* the name offset of dirent j of block b, as stored
NameOffOf(d, b, j) ==
    SizeOfDirent * Len(Dirs[d].blocks[b]) + NamesLen(Dirs[d].blocks[b], j - 1)

\* bytes cut at the first NUL
CutAtNul(bytes) ==
    IF \A k \in 1..Len(bytes) : bytes[k] # 0 THEN bytes
    ELSE SubSeq(bytes, 1, (CHOOSE k \in 1..Len(bytes) :
                              bytes[k] = 0 /\ \A j \in 1..(k - 1) : bytes[j] # 0) - 1)

\* the name of dirent j of block b of directory d, read from the bytes
NameOfDirent(d, b, j) ==
    IF j < Len(Dirs[d].blocks[b])
    THEN SubSeq(BlockContent(d, b), NameOffOf(d, b, j) + 1, NameOffOf(d, b, j + 1))
    ELSE CutAtNul(SubSeq(BlockContent(d, b), NameOffOf(d, b, j) + 1,
                         Len(BlockContent(d, b))))

\* the names of directory d in block-then-position order
NamesOfDir(d) ==
    Concat([b \in 1..Len(Dirs[d].blocks) |->
               [j \in 1..Len(Dirs[d].blocks[b]) |-> NameOfDirent(d, b, j)]], 1)

\* C23 (last-entry name length): for a directory of size > 0, a multiple of
\* 4096 or not, a walk of all its entries succeeds and the name of each
\* dirent is: for the last dirent of the last block the bytes from its name
\* offset to the end of the directory content, cut at the first NUL; for the
\* last dirent of an earlier block the same with the block end as the limit;
\* for any other dirent the bytes up to the next name offset.  No length
\* computation underflows.
LastEntryName ==
    (res.some /\ req.op = "walk_resume" /\ req.k = 0
        /\ DirSize(Dirs[req.dir].blocks) > 0) =>
        /\ IsOk(res.v.second.result)
        /\ Len(res.v.second.emitted) = Len(NamesOfDir(req.dir))
        /\ \A i \in 1..Len(NamesOfDir(req.dir)) :
              res.v.second.emitted[i].name = NamesOfDir(req.dir)[i]

\* C24 (child count): get_child_count on a non-directory returns ceil(size /
\* chunk_size); on a directory it returns the number of its dirents minus 2,
\* and a directory of fewer than two dirents (one of size 0 included) is
\* rejected: the call returns no wrapped count and does not panic.
ChildCount ==
    (res.some /\ req.op = "get_child_count") =>
        CASE req.img = "file" ->
                res.v = Ok(div_round_up(FileSizeOf(req.cs, req.file), req.cs))
          [] req.img = "dir" -> res.v = Ok(W(Len(EntriesOf(req.dir)) - 2))
          [] req.img = "inode" ->
                IF req.inode.mode # S_IFDIR
                THEN res.v = Ok(W((req.inode.size + HandleMeta.chunk_size - 1)
                                     \div HandleMeta.chunk_size))
                ELSE IF req.inode.size = 0 THEN IsErr(res.v)
                ELSE (req.inode.rsv = 0
                         /\ req.inode.layout \in {EROFS_INODE_FLAT_PLAIN,
                                                  EROFS_INODE_FLAT_INLINE}) =>
                        res.v = Ok(WZero)

\* C25 (layout errors in data-block resolution): resolving block k of an
\* inode with a reserved format bit, or with a layout other than plain and
\* inline, fails with Incompatible; for layout plain it gives (union + k) *
\* 4096; for layout inline the same for k < blocks_count - 1 and
\* inode_offset + inode_xattr_size for k = blocks_count - 1.
LayoutErrors ==
    (res.some /\ req.op = "data_block_offset") =>
        LET v == req.inode
            blocks_count == (v.size + EROFS_BLOCK_SIZE - 1) \div EROFS_BLOCK_SIZE
            plain == Ok(W((2 + req.k) * EROFS_BLOCK_SIZE))
            tail == Ok(W(SlotBase(0) + (IF v.ext = 1 THEN SizeOfInodeExtended
                                          ELSE SizeOfInodeCompact)))
        IN  IF v.rsv # 0
                \/ v.layout \notin {EROFS_INODE_FLAT_PLAIN, EROFS_INODE_FLAT_INLINE}
            THEN res.v = Err("Incompatible")
            ELSE IF v.layout = EROFS_INODE_FLAT_PLAIN THEN res.v = plain
            ELSE /\ req.k < blocks_count - 1 => res.v = plain
                 /\ req.k = blocks_count - 1 => res.v = tail

-----------------------------------------------------------------------------
(* Reads past the chunk array and the width of the window, on SpecAlloc     *)

\* the head chunk index of the request is at or past the number of chunks of
\* the file
PastChunkArray ==
    WLe(div_round_up(FileSizeOf(req.cs, req.file), req.cs), WDivC(req.o, req.cs).q)

\* C26 (read past the chunk array): alloc_bio_vecs with an offset whose head
\* chunk index offset / chunk_size is at or past ceil(size / chunk_size)
\* returns Ok with no vectors: it does not fail and does not panic, and
\* total - head does not underflow.
ReadPastChunks ==
    (AllocDone /\ PastChunkArray) => res.v = Ok(<<>>)

\* the bytes of the file from the offset of the request on, at most the
\* length asked: min(S - o, L), and nothing when o is at or past S
Remaining ==
    IF WLe(FileSizeOf(req.cs, req.file), req.o) THEN WZero ELSE AllocWindow

\* C29 (no 32-bit truncation of the window): alloc_bio_vecs keeps the byte
\* count min(size - offset, len) exactly for every file size and length,
\* values of 2^32 or more and offsets past the size included: the call
\* succeeds, the content_len of its descriptors sum to that count, and the
\* final check that nothing is left does not fail.
ExactWindow ==
    (AllocDone /\ req.env = AllResolved /\ ~PastChunkArray) =>
        /\ IsOk(res.v)
        /\ W(SumSizes(Flatten(res.v.val), Len(Flatten(res.v.val)))) = Remaining

-----------------------------------------------------------------------------
(* The meta across load/update, on Spec                                      *)

\* destroy has published the tuple of an empty superblock
Destroyed ==
    \E i \in 2..Len(tuples) : tuples[i] = DirectMappingState_new(RafsSuperMeta_default)

\* a step of update_state that stores: the new tuple has the meta of the
\* tuple it supersedes, the mapping of the file and the blob table the file
\* holds where that meta places it; the tuples before it stay as they are
UpdateFrame ==
    (updater.pc = "mapped" /\ updater'.pc = "done") =>
        /\ state' = Len(tuples) + 1
        /\ \A i \in 1..Len(tuples) : tuples'[i] = tuples[i]
        /\ tuples'[state'].meta = tuples[state].meta
        /\ tuples'[state'].map = [len |-> Files[updater.file].len,
                                  segs |-> Files[updater.file].segs]
        /\ tuples[state].meta.blob_table_offset = ConcMeta.blob_table_offset
        /\ tuples[state].meta.blob_table_size = ConcMeta.blob_table_size
        /\ tuples'[state'].blob_table = Files[updater.file].blobs.val

\* the published meta and the cached info are those of new()
MetaOfNew ==
    ~Destroyed =>
        /\ tuples[state].meta = ConcMeta
        /\ DirectCachedInfo(tuples[state].meta) = ConcInfo

\* C30 (update leaves the superblock meta unchanged): after any sequence of
\* load/update calls the meta of the published tuple and the cached info
\* are the values given to new(); a store of update replaces only the mapping
\* and the blob table, and the blob table is the one read at the offsets of
\* the old meta.
MetaKept == [][UpdateFrame]_vars /\ []MetaOfNew

\* two updates have stored, the second on another file than the first
MetaKeptWitness ==
    /\ Len(tuples) = 3
    /\ ~Destroyed
    /\ state = 3
    /\ updater.pc = "done"
    /\ updater.result = Some(Ok(TRUE))
    /\ tuples[3].map # tuples[2].map
    /\ tuples[3].meta = ConcMeta

-----------------------------------------------------------------------------
(* The join of on-inode chunk addresses with the chunk table, on Spec        *)

\* the rows of the chunk table of tuple st whose synthesized address is addr
RowsOf(st, addr) ==
    {k \in 0..((st.meta.chunk_table_size \div SizeOfV5ChunkInfo) - 1) :
        RowChunkAddr(V5ChunkAt(st.map, st.meta.chunk_table_offset + k * SizeOfV5ChunkInfo))
            = addr}

\* what C27 asks of the result of get_chunk_info(idx) on handle h, all of
\* whose loads returned the tuple st
JoinedRow(h, st, idx, result) ==
    LET inode == handle_disk_inode(h, st)
        count == div_round_up(inode.val.size, ConcInfo.chunk_size)
        addr == ChunkAddrAt(st.map, h.offset + inode_xattr_size(inode.val)
                                        + WInt(idx) * SizeOfChunkAddr)
    IN  IF ~is_reg(inode.val) \/ ~WLt(idx, count) THEN result = Err("NotFound")
        ELSE IF st.meta.chunk_table_size % SizeOfV5ChunkInfo # 0
        THEN result = Err("Invalid")
        ELSE IF RowsOf(st, addr) = {} THEN result = Err("NotFound")
        ELSE /\ IsOk(result)
             /\ \E k \in RowsOf(st, addr) :
                   result.val.offset = st.meta.chunk_table_offset + k * SizeOfV5ChunkInfo

\* C27 (chunk-info join): get_chunk_info(idx) on a regular file with idx <
\* ceil(size / chunk_size) returns a row of the chunk table whose synthesized
\* address (blob_index, blob_ci_index, uncompressed_offset / 4096) is the
\* idx-th chunk address of the inode; it returns NotFound when the inode is
\* not a regular file, idx is out of range or no row has that address, and
\* Invalid when the chunk table size is not a multiple of the row size.
ChunkInfoJoin ==
    \A r \in Readers :
        (/\ readers[r].out.some
         /\ readers[r].call.v.op = "get_chunk_info"
         /\ \A k \in 1..Len(readers[r].snaps) : readers[r].snaps[k] = readers[r].snaps[1]
         /\ IsOk(handle_disk_inode(readers[r].h.v, tuples[readers[r].snaps[1]]))) =>
            JoinedRow(readers[r].h.v, tuples[readers[r].snaps[1]], readers[r].call.v.idx,
                      readers[r].out.v.result)

-----------------------------------------------------------------------------
(* ServiceContoller::on_event: events to the state machine and their results *)

\* the threads that call on_event, and the on_event calls of each
Callers == {"c1", "c2"}
MaxSends == 2

\* DaemonStateMachineInput values sent through on_event
Events == {"Start", "Stop"}

\* the DaemonResult<()> values the state machine thread can send back
Outcomes == {Ok("unit"), Err("StartService")}

CallerIdle(calls) == [pc |-> "idle", calls |-> calls, event |-> "", out |-> None]

\* create_daemon: the two channels are empty, the state machine thread holds
\* from_client and to_client, nobody holds the Mutex of result_receiver
EventInit ==
    /\ overflow_checks \in BOOLEAN
    /\ req = [op |-> "on_event"]
    /\ res = None
    /\ state = 0
    /\ tuples = <<>>
    /\ chunk_map = None
    /\ readers = [c \in Callers |-> CallerIdle(0)]
    /\ updater = None
    /\ released = {}
    /\ daemon = [to_sm |-> <<>>, to_client |-> <<>>, result_receiver |-> None,
                 machine |-> TRUE]

\* request_sender.lock().unwrap().send(event): the guard of request_sender
\* lives for this statement only, and send never blocks; it fails when the
\* receiving end has been dropped, and `?` returns the Channel error
SendEvent(c) ==
    /\ readers[c].pc = "idle"
    /\ readers[c].calls < MaxSends
    /\ \E e \in Events :
          IF daemon.machine
          THEN /\ daemon' = [daemon EXCEPT
                                !.to_sm = Append(@, [event |-> e,
                                                     by |-> <<c, readers[c].calls + 1>>])]
               /\ readers' = [readers EXCEPT ![c] =
                                 [CallerIdle(readers[c].calls + 1) EXCEPT
                                     !.pc = "sent", !.event = e]]
          ELSE /\ readers' = [readers EXCEPT ![c] =
                                 [CallerIdle(readers[c].calls + 1) EXCEPT
                                     !.event = e,
                                     !.out = Some([result |-> Err("Channel"),
                                                   of |-> None])]]
               /\ UNCHANGED daemon
    /\ UNCHANGED <<overflow_checks, req, res, fsVars>>

\* result_receiver.lock(): waits until no other thread holds the Mutex
LockReceiver(c) ==
    /\ readers[c].pc = "sent"
    /\ daemon.result_receiver = None
    /\ daemon' = [daemon EXCEPT !.result_receiver = Some(c)]
    /\ readers' = [readers EXCEPT ![c].pc = "recv"]
    /\ UNCHANGED <<overflow_checks, req, res, fsVars>>

\* recv() under the lock: waits for the next result in the channel, fails
\* when the channel is empty and its sending end has been dropped; the guard
\* is dropped when on_event returns
RecvResult(c) ==
    /\ readers[c].pc = "recv"
    /\ daemon.to_client # <<>> \/ ~daemon.machine
    /\ readers' = [readers EXCEPT
                      ![c].pc = "idle",
                      ![c].out = IF daemon.to_client # <<>>
                                 THEN Some([result |-> Head(daemon.to_client).result,
                                            of |-> Some(Head(daemon.to_client).of)])
                                 ELSE Some([result |-> Err("Channel"), of |-> None])]
    /\ daemon' = [daemon EXCEPT
                     !.result_receiver = None,
                     !.to_client = IF @ # <<>> THEN Tail(@) ELSE @]
    /\ UNCHANGED <<overflow_checks, req, res, fsVars>>

\* the state machine thread: takes the next event from from_client, makes
\* the transition and sends its result to to_client
MachineStep ==
    /\ daemon.machine
    /\ daemon.to_sm # <<>>
    /\ \E o \in Outcomes :
          daemon' = [daemon EXCEPT
                        !.to_sm = Tail(@),
                        !.to_client = Append(@, [result |-> o,
                                                 of |-> Head(daemon.to_sm).by])]
    /\ UNCHANGED <<overflow_checks, req, res, fsVars, readers>>

\* the state machine thread ends between two events and drops from_client
\* and to_client
MachineExit ==
    /\ daemon.machine
    /\ daemon' = [daemon EXCEPT !.machine = FALSE]
    /\ UNCHANGED <<overflow_checks, req, res, fsVars, readers>>

EventNext ==
    \/ \E c \in Callers : SendEvent(c)
    \/ \E c \in Callers : LockReceiver(c)
    \/ \E c \in Callers : RecvResult(c)
    \/ MachineStep
    \/ MachineExit

SpecEvent == EventInit /\ [][EventNext]_vars

\* C28 (request/response pairing): a result that on_event returns from the
\* result channel is the one the state machine produced for the event that
\* this same call sent, whatever the interleaving of the callers' sends and
\* receives.
EventPairing ==
    \A c \in Callers :
        (readers[c].out.some /\ readers[c].out.v.of.some) =>
            readers[c].out.v.of.v = <<c, readers[c].calls>>

====
